---------------------------- MODULE Spec2Model ----------------------------
(***************************************************************************)
(* A model of the ATS scoring engine, backend/app/services/ats_service.py.  *)
(*                                                                         *)
(* Texts are sequences of one-character strings, so that the substring     *)
(* tests, the regular expressions and the tokenisers of the engine are     *)
(* computed character by character, as the code computes them.  Numbers    *)
(* that the code holds as floats are exact rationals [n, d] here.          *)
(***************************************************************************)
EXTENDS Integers, Sequences, FiniteSets, TLC

(***************************************************************************)
(* Characters and strings.                                                 *)
(***************************************************************************)
LowerLetters == <<"a","b","c","d","e","f","g","h","i","j","k","l","m",
                  "n","o","p","q","r","s","t","u","v","w","x","y","z">>
UpperLetters == <<"A","B","C","D","E","F","G","H","I","J","K","L","M",
                  "N","O","P","Q","R","S","T","U","V","W","X","Y","Z">>
Digits == <<"0","1","2","3","4","5","6","7","8","9">>

Range(s) == {s[i] : i \in 1..Len(s)}

\* a sequence given as a function, as the tuple of its values
Tup(f) == SubSeq(f, 1, Len(f))

DigitSet == Range(Digits)
UpperSet == Range(UpperLetters)
AlphaSet == Range(LowerLetters) \cup Range(UpperLetters)
WordCharSet == AlphaSet \cup DigitSet \cup {"_"}
SpaceSet == {" ", "\n", "\t"}

IsDigit(c) == c \in DigitSet
IsUpper(c) == c \in UpperSet
IsAlpha(c) == c \in AlphaSet
\* \w of the re module (ASCII part): letters, digits and the underscore.
IsWordChar(c) == c \in WordCharSet
\* \s of the re module, and the separators of str.split().
IsSpace(c) == c \in SpaceSet

IndexOf(c, s) == CHOOSE i \in 1..Len(s) : s[i] = c
DigitValue(c) == IndexOf(c, Digits) - 1

\* str.lower(), one character
LowerChar(c) == IF IsUpper(c) THEN LowerLetters[IndexOf(c, UpperLetters)] ELSE c
\* str.lower()
Lower(s) == Tup([i \in 1..Len(s) |-> LowerChar(s[i])])

\* whether sub occurs in s at position i
OccursAt(sub, s, i) ==
    /\ i >= 1
    /\ i + Len(sub) - 1 <= Len(s)
    /\ \A k \in 1..Len(sub) : s[i + k - 1] = sub[k]

\* the `in` operator of Python on strings: sub in s
Contains(s, sub) == \E i \in 1..(Len(s) - Len(sub) + 1) : OccursAt(sub, s, i)

\* whether some member of the list subs occurs in s: any(w in s for w in subs)
ContainsAny(s, subs) == \E k \in 1..Len(subs) : Contains(s, subs[k])

RECURSIVE Flatten(_)
Flatten(ss) == IF ss = <<>> THEN <<>> ELSE Head(ss) \o Flatten(Tail(ss))

\* the k-th smallest member of a set of integers
Nth(S, k) == CHOOSE x \in S : Cardinality({y \in S : y < x}) = k - 1

\* the maximal runs, in order, of the characters s[i] of s with keep[i]
Runs(s, keep) ==
    LET starts == {i \in 1..Len(s) : keep[i] /\ (i = 1 \/ ~keep[i - 1])}
        ends   == {i \in 1..Len(s) : keep[i] /\ (i = Len(s) \/ ~keep[i + 1])}
    IN  Tup([k \in 1..Cardinality(starts) |-> SubSeq(s, Nth(starts, k), Nth(ends, k))])

\* str.split(): the maximal runs of non-space characters of s, in order
Split(s) == Runs(s, Tup([i \in 1..Len(s) |-> ~IsSpace(s[i])]))

\* str.split('\n'): the pieces between newlines, empty pieces kept
SplitLines(s) ==
    LET cuts == {0, Len(s) + 1} \cup {i \in 1..Len(s) : s[i] = "\n"}
    IN  Tup([k \in 1..(Cardinality(cuts) - 1) |->
                SubSeq(s, Nth(cuts, k) + 1, Nth(cuts, k + 1) - 1)])

\* \b of the re module at the gap before position i of s (1 <= i <= Len(s)+1)
WordBoundary(s, i) ==
    LET before == i > 1 /\ IsWordChar(s[i - 1])
        after  == i <= Len(s) /\ IsWordChar(s[i])
    IN  before # after

\* re.search(r'\b' + re.escape(w) + r'\b', s)
WholeWordIn(w, s) ==
    \E i \in 1..(Len(s) - Len(w) + 1) :
        /\ OccursAt(w, s, i)
        /\ WordBoundary(s, i)
        /\ WordBoundary(s, i + Len(w))

(***************************************************************************)
(* The keyword database of AtsService.__init__, every entry as written.    *)
(***************************************************************************)
soft_skills ==
    << <<"l","e","a","d","e","r","s","h","i","p">>,
       <<"c","o","m","m","u","n","i","c","a","t","i","o","n">>,
       <<"t","e","a","m","w","o","r","k">>,
       <<"p","r","o","b","l","e","m"," ","s","o","l","v","i","n","g">>,
       <<"c","r","i","t","i","c","a","l"," ","t","h","i","n","k","i","n","g">>,
       <<"c","r","e","a","t","i","v","i","t","y">>,
       <<"a","d","a","p","t","a","b","i","l","i","t","y">>,
       <<"t","i","m","e"," ","m","a","n","a","g","e","m","e","n","t">>,
       <<"o","r","g","a","n","i","z","a","t","i","o","n">>,
       <<"a","t","t","e","n","t","i","o","n"," ","t","o"," ","d","e","t","a","i","l">>,
       <<"a","n","a","l","y","t","i","c","a","l"," ","s","k","i","l","l","s">>,
       <<"p","r","o","j","e","c","t"," ","m","a","n","a","g","e","m","e","n","t">>,
       <<"c","o","l","l","a","b","o","r","a","t","i","o","n">>,
       <<"m","e","n","t","o","r","i","n","g">>,
       <<"p","r","e","s","e","n","t","a","t","i","o","n"," ","s","k","i","l","l","s">>,
       <<"n","e","g","o","t","i","a","t","i","o","n">>,
       <<"c","u","s","t","o","m","e","r"," ","s","e","r","v","i","c","e">>,
       <<"s","a","l","e","s">>,
       <<"m","a","r","k","e","t","i","n","g">>,
       <<"r","e","s","e","a","r","c","h">>,
       <<"w","r","i","t","i","n","g">>,
       <<"p","u","b","l","i","c"," ","s","p","e","a","k","i","n","g">>,
       <<"a","g","i","l","e">>,
       <<"f","a","s","t","-","p","a","c","e","d">>,
       <<"s","t","a","r","t","u","p">>,
       <<"r","e","m","o","t","e">>,
       <<"f","l","e","x","i","b","l","e">> >>

\* the lists of self.technical_skills.values(), in the order of the dict
technical_skills ==
    <<
      \* 'programming'
      << <<"p","y","t","h","o","n">>,
         <<"j","a","v","a","s","c","r","i","p","t">>,
         <<"j","a","v","a">>,
         <<"c","+","+">>,
         <<"c","#">>,
         <<"p","h","p">>,
         <<"r","u","b","y">>,
         <<"g","o">>,
         <<"r","u","s","t">>,
         <<"s","w","i","f","t">>,
         <<"k","o","t","l","i","n">>,
         <<"s","c","a","l","a">>,
         <<"t","y","p","e","s","c","r","i","p","t">>,
         <<"h","t","m","l">>,
         <<"c","s","s">>,
         <<"s","q","l">>,
         <<"r">>,
         <<"m","a","t","l","a","b">>,
         <<"s","a","s">>,
         <<"s","t","a","t","a">>,
         <<"v","b","a">>,
         <<"p","o","w","e","r","s","h","e","l","l">>,
         <<"b","a","s","h">> >>,
      \* 'frameworks'
      << <<"r","e","a","c","t">>,
         <<"a","n","g","u","l","a","r">>,
         <<"v","u","e">>,
         <<"n","o","d","e",".","j","s">>,
         <<"e","x","p","r","e","s","s">>,
         <<"d","j","a","n","g","o">>,
         <<"f","l","a","s","k">>,
         <<"s","p","r","i","n","g">>,
         <<"l","a","r","a","v","e","l">>,
         <<"a","s","p",".","n","e","t">>,
         <<"j","q","u","e","r","y">>,
         <<"b","o","o","t","s","t","r","a","p">>,
         <<"t","a","i","l","w","i","n","d">>,
         <<"m","a","t","e","r","i","a","l","-","u","i">>,
         <<"r","e","d","u","x">>,
         <<"v","u","e","x">>,
         <<"n","e","x","t",".","j","s">>,
         <<"n","u","x","t",".","j","s">>,
         <<"n","e","s","t","j","s">> >>,
      \* 'web3'
      << <<"w","e","b","3">>,
         <<"b","l","o","c","k","c","h","a","i","n">>,
         <<"e","t","h","e","r","e","u","m">>,
         <<"b","i","t","c","o","i","n">>,
         <<"s","o","l","i","d","i","t","y">>,
         <<"s","m","a","r","t"," ","c","o","n","t","r","a","c","t">>,
         <<"d","e","f","i">>,
         <<"n","f","t">>,
         <<"m","e","t","a","m","a","s","k">>,
         <<"h","a","r","d","h","a","t">>,
         <<"t","r","u","f","f","l","e">>,
         <<"g","a","n","a","c","h","e">>,
         <<"i","p","f","s">>,
         <<"p","o","l","y","g","o","n">>,
         <<"b","i","n","a","n","c","e"," ","s","m","a","r","t"," ","c","h","a","i","n">>,
         <<"b","s","c">>,
         <<"l","a","y","e","r"," ","2">>,
         <<"r","o","l","l","u","p">>,
         <<"o","p","t","i","m","i","s","m">>,
         <<"a","r","b","i","t","r","u","m">>,
         <<"u","n","i","s","w","a","p">>,
         <<"a","a","v","e">>,
         <<"c","o","m","p","o","u","n","d">>,
         <<"c","h","a","i","n","l","i","n","k">> >>,
      \* 'databases'
      << <<"m","y","s","q","l">>,
         <<"p","o","s","t","g","r","e","s","q","l">>,
         <<"m","o","n","g","o","d","b">>,
         <<"r","e","d","i","s">>,
         <<"e","l","a","s","t","i","c","s","e","a","r","c","h">>,
         <<"o","r","a","c","l","e">>,
         <<"s","q","l"," ","s","e","r","v","e","r">>,
         <<"s","q","l","i","t","e">>,
         <<"d","y","n","a","m","o","d","b">>,
         <<"f","i","r","e","b","a","s","e">>,
         <<"c","a","s","s","a","n","d","r","a">>,
         <<"n","e","o","4","j">>,
         <<"i","n","f","l","u","x","d","b">>,
         <<"c","o","u","c","h","d","b">>,
         <<"g","r","a","p","h","q","l">>,
         <<"n","o","s","q","l">> >>,
      \* 'cloud'
      << <<"a","w","s">>,
         <<"a","z","u","r","e">>,
         <<"g","c","p">>,
         <<"h","e","r","o","k","u">>,
         <<"d","i","g","i","t","a","l","o","c","e","a","n">>,
         <<"l","i","n","o","d","e">>,
         <<"v","u","l","t","r">>,
         <<"c","l","o","u","d","f","l","a","r","e">>,
         <<"e","c","2">>,
         <<"s","3">>,
         <<"l","a","m","b","d","a">>,
         <<"r","d","s">>,
         <<"d","y","n","a","m","o","d","b">>,
         <<"c","l","o","u","d","f","r","o","n","t">>,
         <<"r","o","u","t","e","5","3">>,
         <<"c","l","o","u","d">> >>,
      \* 'devops'
      << <<"d","o","c","k","e","r">>,
         <<"k","u","b","e","r","n","e","t","e","s">>,
         <<"j","e","n","k","i","n","s">>,
         <<"g","i","t","l","a","b"," ","c","i">>,
         <<"g","i","t","h","u","b"," ","a","c","t","i","o","n","s">>,
         <<"t","r","a","v","i","s"," ","c","i">>,
         <<"c","i","r","c","l","e","c","i">>,
         <<"t","e","r","r","a","f","o","r","m">>,
         <<"a","n","s","i","b","l","e">>,
         <<"c","h","e","f">>,
         <<"p","u","p","p","e","t">>,
         <<"p","r","o","m","e","t","h","e","u","s">>,
         <<"g","r","a","f","a","n","a">>,
         <<"e","l","k"," ","s","t","a","c","k">>,
         <<"c","i","/","c","d">> >>,
      \* 'data'
      << <<"p","a","n","d","a","s">>,
         <<"n","u","m","p","y">>,
         <<"s","c","i","k","i","t","-","l","e","a","r","n">>,
         <<"t","e","n","s","o","r","f","l","o","w">>,
         <<"p","y","t","o","r","c","h">>,
         <<"k","e","r","a","s">>,
         <<"s","p","a","r","k">>,
         <<"h","a","d","o","o","p">>,
         <<"k","a","f","k","a">>,
         <<"a","i","r","f","l","o","w">>,
         <<"d","b","t">>,
         <<"s","n","o","w","f","l","a","k","e">>,
         <<"d","a","t","a","b","r","i","c","k","s">>,
         <<"t","a","b","l","e","a","u">>,
         <<"p","o","w","e","r"," ","b","i">>,
         <<"l","o","o","k","e","r">> >>
    >>

\* the lists of self.industry_keywords.values(), in the order of the dict
industry_keywords ==
    <<
      \* 'software development'
      << <<"a","g","i","l","e">>,
         <<"s","c","r","u","m">>,
         <<"s","d","l","c">>,
         <<"a","p","i">>,
         <<"m","i","c","r","o","s","e","r","v","i","c","e","s">>,
         <<"f","u","l","l"," ","s","t","a","c","k">>,
         <<"f","r","o","n","t","e","n","d">>,
         <<"b","a","c","k","e","n","d">> >>,
      \* 'data science'
      << <<"m","a","c","h","i","n","e"," ","l","e","a","r","n","i","n","g">>,
         <<"a","i">>,
         <<"s","t","a","t","i","s","t","i","c","s">>,
         <<"d","a","t","a"," ","a","n","a","l","y","s","i","s">>,
         <<"p","r","e","d","i","c","t","i","v","e"," ","m","o","d","e","l","i","n","g">>,
         <<"n","l","p">>,
         <<"c","o","m","p","u","t","e","r"," ","v","i","s","i","o","n">> >>,
      \* 'finance'
      << <<"f","i","n","a","n","c","i","a","l"," ","m","o","d","e","l","i","n","g">>,
         <<"r","i","s","k"," ","m","a","n","a","g","e","m","e","n","t">>,
         <<"p","o","r","t","f","o","l","i","o"," ","m","a","n","a","g","e","m","e","n","t">>,
         <<"t","r","a","d","i","n","g">>,
         <<"c","o","m","p","l","i","a","n","c","e">>,
         <<"a","u","d","i","t">> >>,
      \* 'marketing'
      << <<"d","i","g","i","t","a","l"," ","m","a","r","k","e","t","i","n","g">>,
         <<"s","e","o">>,
         <<"s","e","m">>,
         <<"s","o","c","i","a","l"," ","m","e","d","i","a">>,
         <<"c","o","n","t","e","n","t"," ","m","a","r","k","e","t","i","n","g">>,
         <<"e","m","a","i","l"," ","m","a","r","k","e","t","i","n","g">>,
         <<"a","n","a","l","y","t","i","c","s">> >>,
      \* 'healthcare'
      << <<"p","a","t","i","e","n","t"," ","c","a","r","e">>,
         <<"c","l","i","n","i","c","a","l">>,
         <<"m","e","d","i","c","a","l">>,
         <<"h","e","a","l","t","h","c","a","r","e">>,
         <<"p","h","a","r","m","a","c","e","u","t","i","c","a","l">>,
         <<"f","d","a">>,
         <<"h","i","p","a","a">> >>,
      \* 'education'
      << <<"c","u","r","r","i","c","u","l","u","m">>,
         <<"t","e","a","c","h","i","n","g">>,
         <<"i","n","s","t","r","u","c","t","i","o","n","a","l"," ","d","e","s","i","g","n">>,
         <<"a","s","s","e","s","s","m","e","n","t">>,
         <<"s","t","u","d","e","n","t">>,
         <<"a","c","a","d","e","m","i","c">> >>
    >>

\* [skill for skill_list in self.technical_skills.values() for skill in skill_list]
AllTechnicalSkills == Flatten(technical_skills)
\* [term for term_list in self.industry_keywords.values() for term in term_list]
AllIndustryTerms == Flatten(industry_keywords)

\* the deny-list of domain-generic words of extract_keywords_spacy
common_words ==
    { <<"a","b","s","o","l","u","t","e","l","y">>, <<"a","c","c","e","s","s","i","b","i","l","i","t","y">>,
      <<"a","c","c","e","s","s","i","b","l","e">>, <<"a","c","c","u","r","a","t","e">>,
      <<"a","c","h","i","e","v","a","b","l","e">>, <<"a","d","a","p","t","a","b","l","e">>,
      <<"a","d","a","p","t","i","v","e">>, <<"a","d","j","u","s","t","a","b","l","e">>,
      <<"a","d","v","a","n","t","a","g","e","o","u","s">>, <<"a","l","l","e","g","e","d","l","y">>,
      <<"a","n","a","l","y","z","e">>, <<"a","p","i">>, <<"a","p","p","a","r","e","n","t","l","y">>,
      <<"a","p","p","e","a","l","i","n","g">>, <<"a","p","p","e","a","r","a","n","c","e">>,
      <<"a","p","p","l","i","c","a","t","i","o","n">>, <<"a","p","p","r","o","a","c","h","a","b","l","e">>,
      <<"a","p","p","r","o","p","r","i","a","t","e">>, <<"a","r","b","i","t","r","a","r","i","l","y">>,
      <<"a","r","c","h","i","t","e","c","t">>, <<"a","r","c","h","i","t","e","c","t","u","r","e">>,
      <<"a","r","r","a","n","g","e">>, <<"a","r","t","i","f","i","c","i","a","l","l","y">>,
      <<"a","s","s","e","s","s">>, <<"a","s","s","i","s","t">>, <<"a","t","t","a","i","n","a","b","l","e">>,
      <<"a","t","t","r","a","c","t","i","v","e">>, <<"a","u","t","o","m","a","t","e","d">>,
      <<"a","u","t","o","m","a","t","i","c">>, <<"a","u","t","o","m","a","t","i","c","a","l","l","y">>,
      <<"a","u","t","o","m","a","t","i","o","n">>, <<"a","v","a","i","l","a","b","l","e">>,
      <<"b","a","c","k","e","n","d">>, <<"b","e","l","i","e","v","a","b","l","e">>,
      <<"b","e","n","e","f","i","c","i","a","l">>, <<"b","r","a","n","c","h">>, <<"b","u","g">>,
      <<"b","u","i","l","d">>, <<"b","u","s","i","n","e","s","s">>, <<"c","d">>, <<"c","h","a","n","g","e","a","b","l","e">>,
      <<"c","h","a","o","t","i","c","a","l","l","y">>, <<"c","i">>, <<"c","l","e","a","r","l","y">>,
      <<"c","l","i","e","n","t">>, <<"c","l","o","u","d">>, <<"c","o","d","e">>, <<"c","o","h","e","r","e","n","t">>,
      <<"c","o","l","l","a","b","o","r","a","t","e">>, <<"c","o","l","l","a","b","o","r","a","t","i","o","n">>,
      <<"c","o","m","f","o","r","t","a","b","l","e">>, <<"c","o","m","m","i","t">>,
      <<"c","o","m","m","u","n","i","c","a","t","i","o","n">>, <<"c","o","m","p","a","n","y">>,
      <<"c","o","m","p","a","r","a","t","i","v","e","l","y">>, <<"c","o","m","p","a","t","i","b","l","e">>,
      <<"c","o","m","p","e","l","l","i","n","g">>, <<"c","o","m","p","l","e","t","e">>,
      <<"c","o","m","p","l","e","t","e","l","y">>, <<"c","o","m","p","r","e","h","e","n","s","i","v","e">>,
      <<"c","o","n","s","i","d","e","r","a","b","l","y">>, <<"c","o","n","s","i","s","t","e","n","t">>,
      <<"c","o","n","s","i","s","t","e","n","t","l","y">>, <<"c","o","n","s","t","a","n","t","l","y">>,
      <<"c","o","n","t","i","n","u","o","u","s","l","y">>, <<"c","o","n","t","r","o","l">>,
      <<"c","o","n","t","r","o","l","l","a","b","l","e">>, <<"c","o","n","t","r","o","l","l","a","b","l","y">>,
      <<"c","o","n","v","e","n","i","e","n","t">>, <<"c","o","n","v","i","n","c","i","n","g">>,
      <<"c","o","o","r","d","i","n","a","t","e">>, <<"c","o","r","r","e","c","t">>,
      <<"c","r","e","a","t","e">>, <<"c","r","e","d","i","b","l","e">>, <<"c","u","s","t","o","m","e","r">>,
      <<"c","y","c","l","i","c","a","l","l","y">>, <<"d","a","t","a">>, <<"d","a","t","a","b","a","s","e">>,
      <<"d","e","b","u","g">>, <<"d","e","m","o","n","s","t","r","a","t","e">>, <<"d","e","p","e","n","d","a","b","l","y">>,
      <<"d","e","p","l","o","y">>, <<"d","e","p","l","o","y","m","e","n","t">>, <<"d","e","s","i","g","n">>,
      <<"d","e","s","i","r","a","b","l","e">>, <<"d","e","t","a","i","l","e","d">>,
      <<"d","e","v","e","l","o","p">>, <<"d","e","v","e","l","o","p","m","e","n","t">>,
      <<"d","i","f","f","e","r","e","n","t","l","y">>, <<"d","i","g","i","t","a","l","l","y">>,
      <<"d","i","r","e","c","t">>, <<"d","i","r","e","c","t","l","y">>, <<"d","i","s","c","o","v","e","r">>,
      <<"d","o","c","u","m","e","n","t">>, <<"d","o","c","u","m","e","n","t","a","t","i","o","n">>,
      <<"d","y","n","a","m","i","c">>, <<"e","f","f","i","c","i","e","n","t">>, <<"e","l","e","c","t","r","o","n","i","c","a","l","l","y">>,
      <<"e","n","d">>, <<"e","n","h","a","n","c","e">>, <<"e","n","j","o","y","a","b","l","e">>,
      <<"e","n","t","i","r","e","l","y">>, <<"e","n","v","i","r","o","n","m","e","n","t">>,
      <<"e","r","r","o","r">>, <<"e","s","p","e","c","i","a","l","l","y">>, <<"e","v","a","l","u","a","t","e">>,
      <<"e","x","a","c","t">>, <<"e","x","a","m","i","n","e">>, <<"e","x","c","e","p","t","i","o","n">>,
      <<"e","x","c","e","p","t","i","o","n","a","l","l","y">>, <<"e","x","p","e","r","i","e","n","c","e">>,
      <<"e","x","p","l","a","i","n">>, <<"e","x","p","l","i","c","i","t","l","y">>,
      <<"e","x","p","l","o","r","e">>, <<"e","x","t","e","r","n","a","l","l","y">>,
      <<"e","x","t","r","a","o","r","d","i","n","a","r","i","l","y">>, <<"f","e","a","s","i","b","l","y">>,
      <<"f","e","a","t","u","r","e">>, <<"f","i","l","t","e","r">>, <<"f","i","n","d">>,
      <<"f","i","t","t","i","n","g">>, <<"f","i","x","a","b","l","e">>, <<"f","l","e","x","i","b","l","e">>,
      <<"f","o","r","m","a","t">>, <<"f","r","a","m","e","w","o","r","k">>, <<"f","r","e","q","u","e","n","c","y">>,
      <<"f","r","e","q","u","e","n","t","l","y">>, <<"f","r","o","n","t","e","n","d">>,
      <<"f","u","l","f","i","l","l","i","n","g">>, <<"f","u","l","l">>, <<"f","u","l","l","y">>,
      <<"g","e","n","e","r","a","l">>, <<"g","i","t">>, <<"g","r","a","t","i","f","y","i","n","g">>,
      <<"g","u","i","d","e">>, <<"h","a","n","d","l","e","a","b","l","e">>, <<"h","a","p","h","a","z","a","r","d","l","y">>,
      <<"h","e","l","p">>, <<"h","i","g","h">>, <<"i","d","e","n","t","i","f","y">>,
      <<"i","m","p","l","e","m","e","n","t">>, <<"i","m","p","l","i","c","i","t","l","y">>,
      <<"i","m","p","r","o","v","e">>, <<"i","n","d","i","r","e","c","t","l","y">>,
      <<"i","n","f","r","a","s","t","r","u","c","t","u","r","e">>, <<"i","n","h","e","r","e","n","t","l","y">>,
      <<"i","n","t","e","g","r","a","t","i","o","n">>, <<"i","n","t","e","l","l","i","g","e","n","t">>,
      <<"i","n","t","e","r","a","c","t","i","v","e">>, <<"i","n","t","e","r","f","a","c","e">>,
      <<"i","n","t","e","r","m","i","t","t","e","n","t","l","y">>, <<"i","n","t","e","r","n","a","l","l","y">>,
      <<"i","n","t","r","i","n","s","i","c","a","l","l","y">>, <<"i","n","v","e","s","t","i","g","a","t","e">>,
      <<"i","s","s","u","e">>, <<"j","o","b">>, <<"l","a","n","g","u","a","g","e">>,
      <<"l","a","y","o","u","t">>, <<"l","e","a","d">>, <<"l","e","a","d","e","r","s","h","i","p">>,
      <<"l","e","a","r","n">>, <<"l","i","b","r","a","r","y">>, <<"l","o","c","a","t","e">>,
      <<"l","o","g">>, <<"l","o","g","i","c","a","l">>, <<"l","o","g","i","c","a","l","l","y">>,
      <<"l","u","c","r","a","t","i","v","e">>, <<"m","a","i","n","t","a","i","n">>,
      <<"m","a","i","n","t","a","i","n","a","b","l","y">>, <<"m","a","n","a","g","e">>,
      <<"m","a","n","a","g","e","a","b","l","e">>, <<"m","a","n","a","g","e","a","b","l","y">>,
      <<"m","a","n","a","g","e","m","e","n","t">>, <<"m","a","n","u","a","l">>, <<"m","a","n","u","a","l","l","y">>,
      <<"m","a","t","c","h","i","n","g">>, <<"m","a","t","e","r","i","a","l","l","y">>,
      <<"m","e","a","s","u","r","e">>, <<"m","e","c","h","a","n","i","c","a","l","l","y">>,
      <<"m","e","n","t","o","r">>, <<"m","e","n","t","o","r","i","n","g">>, <<"m","e","r","g","e">>,
      <<"m","e","t","h","o","d","i","c","a","l","l","y">>, <<"m","e","t","h","o","d","o","l","o","g","y">>,
      <<"m","i","g","r","a","t","e">>, <<"m","o","b","i","l","e">>, <<"m","o","d","i","f","i","a","b","l","e">>,
      <<"m","o","n","i","t","o","r">>, <<"m","u","l","t","i","p","u","r","p","o","s","e">>,
      <<"n","a","t","u","r","a","l","l","y">>, <<"n","o","t","a","b","l","y">>, <<"o","b","t","a","i","n","a","b","l","e">>,
      <<"o","b","v","i","o","u","s","l","y">>, <<"o","c","c","a","s","i","o","n","a","l","l","y">>,
      <<"o","f","t","e","n">>, <<"o","p","t","i","m","i","z","e">>, <<"o","p","t","i","m","i","z","e","d">>,
      <<"o","r","g","a","n","i","c","a","l","l","y">>, <<"o","r","g","a","n","i","z","e">>,
      <<"o","s","t","e","n","s","i","b","l","y">>, <<"o","u","t","w","a","r","d","l","y">>,
      <<"o","v","e","r","s","e","e">>, <<"p","a","r","t","i","a","l","l","y">>, <<"p","a","r","t","i","c","u","l","a","r","l","y">>,
      <<"p","a","t","t","e","r","n">>, <<"p","e","r","f","o","r","m","a","n","c","e">>,
      <<"p","e","r","i","o","d","i","c","a","l","l","y">>, <<"p","e","r","s","i","s","t","e","n","t","l","y">>,
      <<"p","e","r","s","u","a","s","i","v","e">>, <<"p","h","y","s","i","c","a","l","l","y">>,
      <<"p","i","p","e","l","i","n","e">>, <<"p","l","a","n">>, <<"p","l","a","t","f","o","r","m">>,
      <<"p","l","e","a","s","a","n","t">>, <<"p","l","e","a","s","i","n","g">>, <<"p","o","s","i","t","i","o","n">>,
      <<"p","r","a","c","t","i","c","a","l","l","y">>, <<"p","r","e","c","i","s","e">>,
      <<"p","r","e","d","i","c","t","a","b","l","y">>, <<"p","r","e","d","i","c","t","i","v","e">>,
      <<"p","r","e","s","e","n","t">>, <<"p","r","o","a","c","t","i","v","e">>, <<"p","r","o","c","e","s","s">>,
      <<"p","r","o","d","u","c","t">>, <<"p","r","o","d","u","c","t","i","o","n">>,
      <<"p","r","o","f","i","t","a","b","l","e">>, <<"p","r","o","j","e","c","t">>,
      <<"p","r","o","p","e","r">>, <<"p","r","o","p","o","s","e">>, <<"p","u","l","l">>,
      <<"p","u","r","p","o","r","t","e","d","l","y">>, <<"p","u","s","h">>, <<"q","u","a","l","i","t","y">>,
      <<"q","u","e","r","y">>, <<"r","a","n","d","o","m","l","y">>, <<"r","a","r","e","l","y">>,
      <<"r","a","t","i","o","n","a","l">>, <<"r","a","t","i","o","n","a","l","l","y">>,
      <<"r","e","a","c","h","a","b","l","e">>, <<"r","e","a","c","t","i","v","e">>,
      <<"r","e","a","d">>, <<"r","e","a","l">>, <<"r","e","a","l","i","s","t","i","c","a","l","l","y">>,
      <<"r","e","a","s","o","n","a","b","l","e">>, <<"r","e","a","s","o","n","a","b","l","y">>,
      <<"r","e","c","o","m","m","e","n","d">>, <<"r","e","c","o","v","e","r","a","b","l","e">>,
      <<"r","e","c","u","r","r","e","n","t","l","y">>, <<"r","e","f","a","c","t","o","r">>,
      <<"r","e","g","u","l","a","r","l","y">>, <<"r","e","l","a","t","i","v","e","l","y">>,
      <<"r","e","l","i","a","b","l","y">>, <<"r","e","m","a","r","k","a","b","l","y">>,
      <<"r","e","p","a","i","r","a","b","l","e">>, <<"r","e","p","e","a","t","e","d","l","y">>,
      <<"r","e","p","o","r","t","e","d","l","y">>, <<"r","e","p","o","s","i","t","o","r","y">>,
      <<"r","e","q","u","e","s","t">>, <<"r","e","q","u","i","r","e","m","e","n","t">>,
      <<"r","e","s","e","a","r","c","h">>, <<"r","e","s","o","l","v","a","b","l","e">>,
      <<"r","e","s","p","o","n","s","i","v","e">>, <<"r","e","s","t","o","r","a","b","l","e">>,
      <<"r","e","v","e","r","s","i","b","l","e">>, <<"r","e","v","i","e","w">>, <<"r","e","w","a","r","d","i","n","g">>,
      <<"r","i","g","h","t">>, <<"r","o","b","u","s","t">>, <<"r","o","l","e">>, <<"s","a","t","i","s","f","y","i","n","g">>,
      <<"s","c","a","l","a","b","l","e">>, <<"s","e","a","r","c","h">>, <<"s","e","e","m","i","n","g","l","y">>,
      <<"s","e","l","d","o","m">>, <<"s","e","m","i">>, <<"s","e","n","s","i","b","l","e">>,
      <<"s","e","n","s","i","b","l","y">>, <<"s","e","r","v","e","r">>, <<"s","e","r","v","i","c","e">>,
      <<"s","h","o","w">>, <<"s","i","g","n","i","f","i","c","a","n","t","l","y">>,
      <<"s","i","m","i","l","a","r","l","y">>, <<"s","m","a","r","t">>, <<"s","o","l","u","t","i","o","n">>,
      <<"s","o","l","v","a","b","l","e">>, <<"s","o","m","e","t","i","m","e","s">>,
      <<"s","o","r","t">>, <<"s","p","e","c","i","a","l","l","y">>, <<"s","p","e","c","i","f","i","c">>,
      <<"s","p","e","c","i","f","i","c","a","l","l","y">>, <<"s","p","e","c","i","f","i","c","a","t","i","o","n">>,
      <<"s","p","o","r","a","d","i","c","a","l","l","y">>, <<"s","t","a","c","k">>,
      <<"s","t","r","u","c","t","u","r","e">>, <<"s","t","u","d","y">>, <<"s","t","y","l","e">>,
      <<"s","u","b","s","t","a","n","t","i","a","l","l","y">>, <<"s","u","g","g","e","s","t">>,
      <<"s","u","i","t","a","b","l","e">>, <<"s","u","p","e","r","f","i","c","i","a","l","l","y">>,
      <<"s","u","p","e","r","v","i","s","e">>, <<"s","u","p","p","o","r","t">>, <<"s","u","p","p","o","s","e","d","l","y">>,
      <<"s","u","s","t","a","i","n","a","b","l","y">>, <<"s","y","n","t","h","e","t","i","c","a","l","l","y">>,
      <<"s","y","s","t","e","m">>, <<"s","y","s","t","e","m","a","t","i","c","a","l","l","y">>,
      <<"t","e","a","c","h">>, <<"t","e","a","m">>, <<"t","e","c","h","n","o","l","o","g","y">>,
      <<"t","e","s","t","i","n","g">>, <<"t","h","o","r","o","u","g","h">>, <<"t","i","m","e">>,
      <<"t","o">>, <<"t","o","o","l">>, <<"t","o","t","a","l","l","y">>, <<"t","r","a","c","k">>,
      <<"t","r","a","i","n">>, <<"t","r","e","a","t","a","b","l","e">>, <<"t","r","o","u","b","l","e","s","h","o","o","t">>,
      <<"t","r","u","s","t","w","o","r","t","h","y">>, <<"u","n","c","o","m","m","o","n","l","y">>,
      <<"u","n","d","e","r","s","t","a","n","d">>, <<"u","n","d","o","a","b","l","e">>,
      <<"u","n","i","q","u","e","l","y">>, <<"u","n","i","t">>, <<"u","n","i","v","e","r","s","a","l">>,
      <<"u","n","u","s","u","a","l","l","y">>, <<"u","p","g","r","a","d","e">>, <<"u","s","a","b","i","l","i","t","y">>,
      <<"u","s","e","r">>, <<"v","a","l","u","a","b","l","e">>, <<"v","e","r","s","a","t","i","l","e">>,
      <<"v","e","r","s","i","o","n">>, <<"v","i","a","b","l","y">>, <<"v","i","r","t","u","a","l","l","y">>,
      <<"w","e","b">>, <<"w","h","o","l","l","y">>, <<"w","o","r","k">>, <<"w","o","r","k","f","l","o","w">>,
      <<"w","r","i","t","e">>, <<"y","e","a","r","s">> }

(***************************************************************************)
(* Hash order.  list(set(keywords)) iterates the set in the order of the   *)
(* string hashes, which CPython keys with a per-process random seed        *)
(* (PYTHONHASHSEED).  The seed is part of a process's state; one seed      *)
(* gives one order, different seeds may give different orders.             *)
(***************************************************************************)
NumSeeds == 2
Seeds == 1..NumSeeds

\* the characters of the model's texts in the order of their code points
Alphabet ==
    <<"\t", "\n", " ", "#", "%", "(", ")", "+", ",", "-", ".", "/">> \o Digits
        \o <<":", "@">> \o UpperLetters \o <<"_">> \o LowerLetters
\* the rank of a character in the order of the code points
Ord(c) == IndexOf(c, Alphabet)

RECURSIVE StrHashFrom(_, _, _, _)
StrHashFrom(seed, s, i, h) ==
    IF i > Len(s) THEN h
    ELSE StrHashFrom(seed, s, i + 1, (h * (29 + 2 * seed) + Ord(s[i])) % 1009)
\* hash(s) in a process whose hash seed is `seed`
StrHash(seed, s) == StrHashFrom(seed, s, 1, seed)

\* a list(set(l)) that would keep the repeated members
KeepAll(l) == l

RECURSIVE Dedupe(_)
\* the distinct members of a list, first occurrences kept in order
Dedupe(l) ==
    IF l = <<>> THEN <<>>
    ELSE LET rest == Dedupe(SubSeq(l, 1, Len(l) - 1))
             x    == l[Len(l)]
         IN  IF x \in Range(rest) THEN rest ELSE Append(rest, x)

RECURSIVE InsertByHash(_, _, _)
InsertByHash(seed, x, sorted) ==
    IF sorted = <<>> THEN <<x>>
    ELSE IF StrHash(seed, x) < StrHash(seed, Head(sorted))
         THEN <<x>> \o sorted
         ELSE <<Head(sorted)>> \o InsertByHash(seed, x, Tail(sorted))

RECURSIVE HashOrderFrom(_, _)
HashOrderFrom(seed, l) ==
    IF l = <<>> THEN <<>>
    ELSE InsertByHash(seed, l[Len(l)], HashOrderFrom(seed, SubSeq(l, 1, Len(l) - 1)))
\* list(set(l)) in a process whose hash seed is `seed`
ListOfSet(seed, l) == HashOrderFrom(seed, Dedupe(l))

\* s1 < s2 as Python compares strings: by the code points of the characters
RECURSIVE StrLess(_, _)
StrLess(s1, s2) ==
    IF s2 = <<>> THEN FALSE
    ELSE IF s1 = <<>> THEN TRUE
    ELSE IF Head(s1) = Head(s2) THEN StrLess(Tail(s1), Tail(s2))
    ELSE Ord(Head(s1)) < Ord(Head(s2))

RECURSIVE InsertSorted(_, _)
InsertSorted(x, sorted) ==
    IF sorted = <<>> THEN <<x>>
    ELSE IF StrLess(x, Head(sorted))
         THEN <<x>> \o sorted
         ELSE <<Head(sorted)>> \o InsertSorted(x, Tail(sorted))

RECURSIVE SortedFrom(_)
SortedFrom(l) ==
    IF l = <<>> THEN <<>> ELSE InsertSorted(Head(l), SortedFrom(Tail(l)))
\* sorted(list(set(l)))
SortedListOfSet(l) == SortedFrom(Dedupe(l))

(***************************************************************************)
(* extract_keywords_fallback                                               *)
(***************************************************************************)
\* a normalisation that would lowercase the text and keep its punctuation
Normalize_KeepPunctuation(text) == Lower(text)

\* re.sub(r'[^\w\s]', ' ', text.lower())
Normalize(text) ==
    LET low == Lower(text)
    IN  Tup([i \in 1..Len(low) |->
                IF IsWordChar(low[i]) \/ IsSpace(low[i]) THEN low[i] ELSE " "])

\* [k for k in terms if k.lower() in normalized]
TermsIn(terms, normalized) ==
    SelectSeq(terms, LAMBDA k : Contains(normalized, Lower(k)))

extract_keywords_fallback(seed, text, category) ==
    LET normalized == Normalize(text)
        keywords ==
            CASE category = "required" ->
                    TermsIn(AllTechnicalSkills, normalized)
              [] category = "preferred" ->
                    TermsIn(AllTechnicalSkills, normalized)
                        \o TermsIn(soft_skills, normalized)
              [] category = "industry" ->
                    TermsIn(AllIndustryTerms, normalized)
              [] category = "soft" ->
                    TermsIn(soft_skills, normalized)
              [] OTHER -> <<>>
    IN  ListOfSet(seed, keywords)

(***************************************************************************)
(* _exact_word_match                                                       *)
(***************************************************************************)
exact_word_match(term, skill) ==
    LET term_lower  == Lower(term)
        skill_lower == Lower(skill)
    IN  IF Len(skill_lower) <= 1 THEN FALSE
        \* Pattern 1: skill is a complete word in the term
        ELSE IF WholeWordIn(skill_lower, term_lower) THEN TRUE
        \* Pattern 2: term is a complete word in the skill
        ELSE IF WholeWordIn(term_lower, skill_lower) THEN TRUE
        \* Pattern 3: exact match
        ELSE IF term_lower = skill_lower THEN TRUE
        \* Pattern 4: skill is part of a compound term
        ELSE IF Contains(term_lower, skill_lower) /\ Len(skill_lower) > 2
             THEN LET parts == Split(term_lower)
                  IN  \E k \in 1..Len(parts) :
                          /\ Contains(parts[k], skill_lower)
                          /\ Len(parts[k]) - Len(skill_lower) <= 2
             ELSE FALSE

(***************************************************************************)
(* The linguistic backend, doc = self.nlp(text.lower()).  spaCy and its    *)
(* statistical model are outside the repository; the document is modelled  *)
(* by the backend's contract: a rule tokeniser (whitespace, then leading   *)
(* and trailing punctuation, then infixes), a stop list, a part-of-speech  *)
(* lexicon and an entity lexicon over the words of the model's texts, and  *)
(* noun chunks as an optional determiner followed by a run of nominal      *)
(* tokens.  The backend is a deterministic function of the text.           *)
(***************************************************************************)
Last(s) == s[Len(s)]
Front(s) == SubSeq(s, 1, Len(s) - 1)

\* the first infix position of a chunk whose ends are word characters, or 0
InfixAt(w) ==
    LET at == {i \in 2..(Len(w) - 1) :
                  w[i] \in {"-", "/"} /\ IsWordChar(w[i - 1]) /\ IsWordChar(w[i + 1])}
    IN  IF at = {} THEN 0 ELSE CHOOSE i \in at : \A j \in at : i <= j

RECURSIVE TokenizeChunk(_)
\* the token texts of one whitespace-delimited chunk
TokenizeChunk(w) ==
    IF w = <<>> THEN <<>>
    ELSE IF ~IsWordChar(Head(w)) THEN <<<<Head(w)>>>> \o TokenizeChunk(Tail(w))
    ELSE IF ~IsWordChar(Last(w)) THEN TokenizeChunk(Front(w)) \o <<<<Last(w)>>>>
    ELSE IF InfixAt(w) = 0 THEN <<w>>
    ELSE <<SubSeq(w, 1, InfixAt(w) - 1), <<w[InfixAt(w)]>>>>
            \o TokenizeChunk(SubSeq(w, InfixAt(w) + 1, Len(w)))

\* tokens of a chunk with their trailing-whitespace flags (token.whitespace_)
ChunkTokens(w, spaceAfter) ==
    LET ts == TokenizeChunk(w)
    IN  Tup([k \in 1..Len(ts) |-> [text |-> ts[k], ws |-> (k = Len(ts)) /\ spaceAfter]])

RECURSIVE TokensOf(_)
TokensOf(chunks) ==
    IF chunks = <<>> THEN <<>>
    ELSE ChunkTokens(Head(chunks), Len(chunks) > 1) \o TokensOf(Tail(chunks))

\* the tokens of doc
SpacyDoc(text) == TokensOf(Split(text))

\* entries of the backend's stop list (token.is_stop)
SpacyStopWords ==
    { <<"i">>, <<"a">>, <<"a","n">>, <<"t","h","e">>, <<"a","s">>, <<"a","n","d">>,
      <<"o","r">>, <<"o","f">>, <<"i","n">>, <<"o","n">>, <<"t","o">>, <<"w","i","t","h">>,
      <<"f","o","r">>, <<"w","e">>, <<"a","r","e">>, <<"i","s">>, <<"a","t">>,
      <<"b","y">>, <<"f","r","o","m">>, <<"f","u","l","l">>, <<"s","h","o","w">> }

\* words of the model's texts that the tagger gives a tag other than
\* NOUN, PROPN or ADJ (verbs, adverbs, participles)
SpacyNonNominal ==
    { <<"w","o","r","k">>, <<"r","e","m","o","t","e","l","y">>,
      <<"r","e","q","u","i","r","e","d">>, <<"l","o","o","k","i","n","g">> }

\* words of the model's texts that the entity recogniser labels, with the label
SpacyEntityLabel(w) ==
    CASE w = <<"a","w","s">> -> "ORG"
      [] w = <<"g","i","f","f","i","t","s">> -> "ORG"
      [] w = <<"h","a","m","b","u","r","g">> -> "GPE"
      [] (w # <<>> /\ \A i \in 1..Len(w) : IsDigit(w[i])) -> "CARDINAL"
      [] OTHER -> "NONE"

is_punct(tok) == \A i \in 1..Len(tok.text) : ~IsWordChar(tok.text[i])
is_stop(tok) == tok.text \in SpacyStopWords
IsNumber(tok) == \A i \in 1..Len(tok.text) : IsDigit(tok.text[i])
\* token.pos_ in ['NOUN', 'PROPN', 'ADJ']
IsNominal(tok) ==
    /\ ~is_punct(tok)
    /\ ~is_stop(tok)
    /\ ~IsNumber(tok)
    /\ tok.text \notin SpacyNonNominal
IsDeterminer(tok) == tok.text \in {<<"t","h","e">>, <<"a">>, <<"a","n">>}

RECURSIVE SpanText(_, _, _)
\* the text of the span of tokens i..j (span.text)
SpanText(doc, i, j) ==
    IF i > j THEN <<>>
    ELSE doc[i].text \o (IF doc[i].ws /\ i < j THEN <<" ">> ELSE <<>>)
            \o SpanText(doc, i + 1, j)

\* doc.noun_chunks as (first, last) token positions, in document order
NounChunkSpans(doc) ==
    LET n == Len(doc)
        \* a maximal run of nominal tokens i..j
        IsRun(i, j) ==
            /\ \A k \in i..j : IsNominal(doc[k])
            /\ (i = 1 \/ ~IsNominal(doc[i - 1]))
            /\ (j = n \/ ~IsNominal(doc[j + 1]))
        runs == {<<i, j>> \in (1..n) \X (1..n) : i <= j /\ IsRun(i, j)}
        WithDet(r) == IF r[1] > 1 /\ IsDeterminer(doc[r[1] - 1])
                      THEN <<r[1] - 1, r[2]>> ELSE r
        RECURSIVE InOrder(_, _)
        InOrder(i, rs) ==
            IF i > n THEN <<>>
            ELSE IF \E r \in rs : r[1] = i
                 THEN <<WithDet(CHOOSE r \in rs : r[1] = i)>> \o InOrder(i + 1, rs)
                 ELSE InOrder(i + 1, rs)
    IN  InOrder(1, runs)

\* doc.ents as (text, label), in document order
Entities(doc) ==
    LET labelled == SelectSeq(doc, LAMBDA tok : SpacyEntityLabel(tok.text) # "NONE")
    IN  Tup([k \in 1..Len(labelled) |->
                [text |-> labelled[k].text, label |-> SpacyEntityLabel(labelled[k].text)]])

(***************************************************************************)
(* extract_keywords_spacy                                                  *)
(***************************************************************************)
\* the single tokens kept as candidate terms (lines 208-222)
technical_terms(doc) ==
    LET kept == SelectSeq(doc, LAMBDA token :
                    /\ ~(\/ Lower(token.text) \in common_words
                         \/ Len(token.text) < 3
                         \/ is_stop(token)
                         \/ is_punct(token))
                    /\ IsNominal(token)
                    /\ ~is_stop(token)
                    /\ Len(token.text) > 2)
    IN  Tup([k \in 1..Len(kept) |-> Lower(kept[k].text)])

\* phrase.startswith(('the ', 'a ', 'an '))
StartsWithArticle(phrase) ==
    \/ OccursAt(<<"t","h","e"," ">>, phrase, 1)
    \/ OccursAt(<<"a"," ">>, phrase, 1)
    \/ OccursAt(<<"a","n"," ">>, phrase, 1)

\* the noun chunks kept as candidate terms (lines 225-233)
noun_phrases(doc) ==
    LET spans   == NounChunkSpans(doc)
        phrases == Tup([k \in 1..Len(spans) |->
                           Lower(SpanText(doc, spans[k][1], spans[k][2]))])
    IN  SelectSeq(phrases, LAMBDA phrase :
            /\ Len(phrase) > 2
            /\ ~(\E k \in 1..Len(Split(phrase)) : Split(phrase)[k] \in common_words)
            /\ ~StartsWithArticle(phrase)
            /\ Len(Split(phrase)) <= 4)

\* the named entities kept as candidate terms (lines 236-241)
entities(doc) ==
    LET kept == SelectSeq(Entities(doc), LAMBDA ent :
                    /\ ent.label \in {"ORG", "PRODUCT", "GPE", "PERSON"}
                    /\ Len(ent.text) > 2
                    /\ Lower(ent.text) \notin common_words)
    IN  Tup([k \in 1..Len(kept) |-> Lower(kept[k].text)])

\* all_terms (line 244)
all_terms(text) ==
    LET doc == SpacyDoc(Lower(text))
    IN  technical_terms(doc) \o noun_phrases(doc) \o entities(doc)

\* for skill in skill_list: if self._exact_word_match(term, skill): append; break
FirstMatch(term, skill_list) ==
    LET hits == {k \in 1..Len(skill_list) : exact_word_match(term, skill_list[k])}
    IN  IF hits = {} THEN <<>>
        ELSE <<Lower(skill_list[CHOOSE k \in hits : \A j \in hits : k <= j])>>

RECURSIVE FirstMatches(_, _)
\* for skill_list in lists: the first match of each list, in the order of the lists
FirstMatches(term, lists) ==
    IF lists = <<>> THEN <<>>
    ELSE FirstMatch(term, Head(lists)) \o FirstMatches(term, Tail(lists))

NodeJs == <<"n","o","d","e",".","j","s">>
NestJs == <<"n","e","s","t","j","s">>

RECURSIVE RequiredLoop(_, _)
\* the loop of the 'required' branch over all_terms (lines 249-261)
RequiredLoop(terms, keywords) ==
    IF terms = <<>> THEN keywords
    ELSE LET term    == Head(terms)
             matched == keywords \o FirstMatches(term, technical_skills)
             aliased == IF Contains(Lower(term), NestJs) /\ NodeJs \notin Range(matched)
                        THEN Append(matched, NodeJs)
                        ELSE matched
         IN  RequiredLoop(Tail(terms), aliased)

RECURSIVE PreferredLoop(_, _)
\* the loop of the 'preferred' branch (lines 264-277)
PreferredLoop(terms, keywords) ==
    IF terms = <<>> THEN keywords
    ELSE LET term == Head(terms)
         IN  PreferredLoop(Tail(terms),
                 keywords \o FirstMatches(term, technical_skills)
                          \o FirstMatch(term, soft_skills))

RECURSIVE IndustryLoop(_, _)
\* the loop of the 'industry' branch (lines 280-286)
IndustryLoop(terms, keywords) ==
    IF terms = <<>> THEN keywords
    ELSE IndustryLoop(Tail(terms),
             keywords \o FirstMatches(Head(terms), industry_keywords))

RECURSIVE SoftLoop(_, _)
\* the loop of the 'soft' branch (lines 289-294)
SoftLoop(terms, keywords) ==
    IF terms = <<>> THEN keywords
    ELSE SoftLoop(Tail(terms), keywords \o FirstMatch(Head(terms), soft_skills))

extract_keywords_spacy(text, category) ==
    LET terms == all_terms(text)
        keywords ==
            CASE category = "required"  -> RequiredLoop(terms, <<>>)
              [] category = "preferred" -> PreferredLoop(terms, <<>>)
              [] category = "industry"  -> IndustryLoop(terms, <<>>)
              [] category = "soft"      -> SoftLoop(terms, <<>>)
              [] OTHER -> <<>>
    IN  SortedListOfSet(keywords)

(***************************************************************************)
(* extract_keywords: the strategy is the engine's nlp handle.              *)
(***************************************************************************)
\* an extract_keywords that would take the spaCy path whatever self.nlp is
extract_keywords_SpacyAlways(nlp, seed, text, category) ==
    extract_keywords_spacy(text, category)

extract_keywords(nlp, seed, text, category) ==
    IF nlp
    THEN extract_keywords_spacy(text, category)
    ELSE extract_keywords_fallback(seed, text, category)

(***************************************************************************)
(* Numbers.  The floats of the code are exact non-negative rationals       *)
(* [n |-> numerator, d |-> denominator] in lowest terms.                    *)
(***************************************************************************)
RECURSIVE GCD(_, _)
GCD(a, b) == IF b = 0 THEN a ELSE GCD(b, a % b)

Rat(n, d) == LET g == GCD(n, d) IN [n |-> n \div g, d |-> d \div g]
RInt(n) == [n |-> n, d |-> 1]
RAdd(x, y) ==
    LET l == (x.d \div GCD(x.d, y.d)) * y.d
    IN  Rat(x.n * (l \div x.d) + y.n * (l \div y.d), l)
RMul(x, y) ==
    LET g1 == GCD(x.n, y.d)
        g2 == GCD(y.n, x.d)
    IN  Rat((x.n \div g1) * (y.n \div g2), (x.d \div g2) * (y.d \div g1))
RLess(x, y) ==
    LET l == (x.d \div GCD(x.d, y.d)) * y.d
    IN  x.n * (l \div x.d) < y.n * (l \div y.d)
\* a min(x, y) that would return its second argument, capping nothing
RSecond(x, y) == y
RMin(x, y) == IF RLess(y, x) THEN y ELSE x

\* round(x, 1): to the nearest tenth, a tie to the even tenth
Round1(x) ==
    LET q == (10 * x.n) \div x.d
        r == (10 * x.n) % x.d
        round_up == 2 * r > x.d \/ (2 * r = x.d /\ q % 2 = 1)
    IN  Rat(IF round_up THEN q + 1 ELSE q, 10)

RECURSIVE SumOver(_, _)
\* the sum of f[t] over the members t of the set S
SumOver(S, f) ==
    IF S = {} THEN 0
    ELSE LET t == CHOOSE t \in S : TRUE IN f[t] + SumOver(S \ {t}, f)

RECURSIVE IsqrtIn(_, _, _)
IsqrtIn(x, lo, hi) ==
    IF lo >= hi THEN lo
    ELSE LET mid == (lo + hi + 1) \div 2
         IN  IF mid * mid <= x THEN IsqrtIn(x, mid, hi) ELSE IsqrtIn(x, lo, mid - 1)
\* the integer part of the square root of x
Isqrt(x) == IsqrtIn(x, 0, 46340)

(***************************************************************************)
(* calculate_semantic_similarity.  TfidfVectorizer and cosine_similarity   *)
(* are scikit-learn's; they are modelled by what they compute on the two   *)
(* documents: the analyser (lower-casing, tokens of two or more word       *)
(* characters, English stop words dropped, unigrams and bigrams), raw term *)
(* counts, the smoothed idf ln((1+2)/(1+df))+1 (1 for a term of both       *)
(* documents, ln(1.5)+1 for a term of one), and the cosine of the two      *)
(* vectors.  The square of ln(1.5)+1 is taken as IdfSqNum/IdfSqDen and the *)
(* cosine is kept to SimScale-ths.  An empty vocabulary is the             *)
(* vectoriser's ValueError.                                                *)
(***************************************************************************)
IdfSqNum == 79
IdfSqDen == 40
SimScale == 1000

\* re.findall(r'\b\w+\b', s): the maximal runs of word characters
WordRuns(s) == Runs(s, Tup([i \in 1..Len(s) |-> IsWordChar(s[i])]))

\* entries of scikit-learn's English stop list (stop_words='english')
SklearnStopWords ==
    { <<"a","n">>, <<"t","h","e">>, <<"a","s">>, <<"a","n","d">>, <<"o","r">>,
      <<"o","f">>, <<"i","n">>, <<"o","n">>, <<"t","o">>, <<"w","i","t","h">>,
      <<"f","o","r">>, <<"w","e">>, <<"a","r","e">>, <<"i","s">>, <<"a","t">>,
      <<"b","y">>, <<"f","r","o","m">>, <<"f","u","l","l">>, <<"s","h","o","w">>,
      <<"s","y","s","t","e","m">>, <<"l","a","t","e","r">>, <<"t","h","e","n">> }

\* the analyser's terms of a document: unigrams, then bigrams
TfidfTerms(text) ==
    LET runs   == WordRuns(Lower(text))
        tokens == SelectSeq(runs, LAMBDA w : Len(w) >= 2 /\ w \notin SklearnStopWords)
    IN  Tup([k \in 1..Len(tokens) |-> <<tokens[k]>>])
            \o Tup([k \in 1..(Len(tokens) - 1) |-> <<tokens[k], tokens[k + 1]>>])

\* a similarity that would divide by the squared norm of the first vector only
TfidfCosine_FirstNorm(terms1, terms2) ==
    LET v1 == Range(terms1)
        v2 == Range(terms2)
        tf1 == [t \in v1 \cup v2 |-> Cardinality({k \in 1..Len(terms1) : terms1[k] = t})]
        tf2 == [t \in v1 \cup v2 |-> Cardinality({k \in 1..Len(terms2) : terms2[k] = t})]
        dot == SumOver(v1 \cap v2, [t \in v1 \cap v2 |-> tf1[t] * tf2[t]])
        sq1 == IdfSqDen * SumOver(v1 \cap v2, [t \in v1 \cap v2 |-> tf1[t] * tf1[t]])
                 + IdfSqNum * SumOver(v1 \ v2, [t \in v1 \ v2 |-> tf1[t] * tf1[t]])
    IN  IF sq1 = 0 THEN RInt(0)
        ELSE Rat((IdfSqDen * dot * SimScale) \div sq1, SimScale)
\* cosine_similarity(tfidf_matrix[0:1], tfidf_matrix[1:2])[0][0], in SimScale-ths
TfidfCosine(terms1, terms2) ==
    LET v1 == Range(terms1)
        v2 == Range(terms2)
        tf1 == [t \in v1 \cup v2 |-> Cardinality({k \in 1..Len(terms1) : terms1[k] = t})]
        tf2 == [t \in v1 \cup v2 |-> Cardinality({k \in 1..Len(terms2) : terms2[k] = t})]
        dot == SumOver(v1 \cap v2, [t \in v1 \cap v2 |-> tf1[t] * tf2[t]])
        sq1 == IdfSqDen * SumOver(v1 \cap v2, [t \in v1 \cap v2 |-> tf1[t] * tf1[t]])
                 + IdfSqNum * SumOver(v1 \ v2, [t \in v1 \ v2 |-> tf1[t] * tf1[t]])
        sq2 == IdfSqDen * SumOver(v1 \cap v2, [t \in v1 \cap v2 |-> tf2[t] * tf2[t]])
                 + IdfSqNum * SumOver(v2 \ v1, [t \in v2 \ v1 |-> tf2[t] * tf2[t]])
    IN  IF sq1 = 0 \/ sq2 = 0 THEN RInt(0)
        ELSE Rat((IdfSqDen * dot * SimScale) \div Isqrt(sq1 * sq2), SimScale)

\* an except branch that would give up and return 0.0
JaccardFallback_Zero(text1, text2) == RInt(0)
\* the except branch: word overlap (lines 357-363)
JaccardFallback(text1, text2) ==
    LET words1 == Range(WordRuns(Lower(text1)))
        words2 == Range(WordRuns(Lower(text2)))
    IN  IF words1 = {} \/ words2 = {} THEN RInt(0)
        ELSE Rat(Cardinality(words1 \cap words2), Cardinality(words1 \cup words2))

\* a similarity that would count an empty text as fully alike
calculate_semantic_similarity_EmptyIsAlike(text1, text2) ==
    IF text1 = <<>> \/ text2 = <<>> THEN RInt(1)
    ELSE IF TfidfTerms(text1) = <<>> /\ TfidfTerms(text2) = <<>>
         THEN JaccardFallback(text1, text2)
         ELSE TfidfCosine(TfidfTerms(text1), TfidfTerms(text2))

calculate_semantic_similarity(text1, text2) ==
    IF text1 = <<>> \/ text2 = <<>> THEN RInt(0)
    ELSE LET terms1 == TfidfTerms(text1)
             terms2 == TfidfTerms(text2)
         IN  IF terms1 = <<>> /\ terms2 = <<>>
             THEN JaccardFallback(text1, text2)
             ELSE TfidfCosine(terms1, terms2)

(***************************************************************************)
(* detect_experience_level                                                 *)
(***************************************************************************)
\* the positions reached from a position of P by \s*
AfterSpaces(s, P) ==
    {j \in 1..(Len(s) + 1) :
        \E i \in P : i <= j /\ \A k \in i..(j - 1) : IsSpace(s[k])}
\* the positions reached from a position of P by the literal lit
AfterLit(s, P, lit) == {i + Len(lit) : i \in {p \in P : OccursAt(lit, s, p)}}

\* the end (exclusive) of the digits of a match of years_pattern that starts
\* at i, or 0 when the pattern does not match at i:
\* (\d+)\s*(?:years?|yrs?)\s*(?:of\s*)?(?:experience|exp)
YearsMatchAt(s, i) ==
    LET ends == {j \in (i + 1)..(Len(s) + 1) : \A k \in i..(j - 1) : IsDigit(s[k])}
        Rest(j) ==
            LET p1 == AfterSpaces(s, {j})
                p2 == AfterLit(s, p1, <<"y","e","a","r">>)
                        \cup AfterLit(s, p1, <<"y","e","a","r","s">>)
                        \cup AfterLit(s, p1, <<"y","r">>)
                        \cup AfterLit(s, p1, <<"y","r","s">>)
                p3 == AfterSpaces(s, p2)
                p4 == p3 \cup AfterSpaces(s, AfterLit(s, p3, <<"o","f">>))
                p5 == AfterLit(s, p4, <<"e","x","p","e","r","i","e","n","c","e">>)
                        \cup AfterLit(s, p4, <<"e","x","p">>)
            IN  p5 # {}
        good == {j \in ends : Rest(j)}
    IN  IF good = {} THEN 0 ELSE CHOOSE j \in good : \A k \in good : k <= j

RECURSIVE DigitsValue(_)
\* int(digits)
DigitsValue(ds) ==
    IF ds = <<>> THEN 0 ELSE 10 * DigitsValue(Front(ds)) + DigitValue(Last(ds))

\* match = re.search(years_pattern, text): the leftmost match and its group 1
YearsSearch(text) ==
    LET starts == {i \in 1..Len(text) : YearsMatchAt(text, i) # 0}
    IN  IF starts = {} THEN [found |-> FALSE, years |-> 0]
        ELSE LET i == CHOOSE i \in starts : \A j \in starts : i <= j
             IN  [found |-> TRUE,
                  years |-> DigitsValue(SubSeq(text, i, YearsMatchAt(text, i) - 1))]

SeniorWords == << <<"s","e","n","i","o","r">>, <<"l","e","a","d">>,
                  <<"m","a","n","a","g","e","r">>, <<"d","i","r","e","c","t","o","r">> >>
MidWords == << <<"m","i","d","-","l","e","v","e","l">>,
               <<"i","n","t","e","r","m","e","d","i","a","t","e">>,
               <<"e","x","p","e","r","i","e","n","c","e","d">> >>
JuniorWords == << <<"j","u","n","i","o","r">>,
                  <<"e","n","t","r","y","-","l","e","v","e","l">>,
                  <<"g","r","a","d","u","a","t","e">> >>

\* a fallback that would try the junior tier before the senior tier
SeniorityLevel_JuniorFirst(text) ==
    IF ContainsAny(text, JuniorWords) THEN 30
    ELSE IF ContainsAny(text, MidWords) THEN 60
    ELSE IF ContainsAny(text, SeniorWords) THEN 80
    ELSE 25

\* the fallback on experience indicators (lines 386-394)
SeniorityLevel(text) ==
    IF ContainsAny(text, SeniorWords) THEN 80
    ELSE IF ContainsAny(text, MidWords) THEN 60
    ELSE IF ContainsAny(text, JuniorWords) THEN 30
    ELSE 25

\* a detect_experience_level that would consult the experience indicators
\* before the years phrase
detect_experience_level_IndicatorsFirst(resume_text) ==
    LET text  == Lower(resume_text)
        match == YearsSearch(text)
        years == match.years
    IN  IF SeniorityLevel(text) # 25 THEN SeniorityLevel(text)
        ELSE IF match.found /\ years >= 10 THEN 100
        ELSE IF match.found /\ years >= 7 THEN 85
        ELSE IF match.found /\ years >= 5 THEN 70
        ELSE IF match.found /\ years >= 3 THEN 55
        ELSE IF match.found /\ years >= 1 THEN 40
        ELSE 25

\* lines 372-394, given match = re.search(years_pattern, text)
LevelOf(match, text) ==
    IF match.found /\ match.years >= 10 THEN 100
    ELSE IF match.found /\ match.years >= 7 THEN 85
    ELSE IF match.found /\ match.years >= 5 THEN 70
    ELSE IF match.found /\ match.years >= 3 THEN 55
    ELSE IF match.found /\ match.years >= 1 THEN 40
    ELSE SeniorityLevel(text)

detect_experience_level(resume_text) ==
    LevelOf(YearsSearch(Lower(resume_text)), Lower(resume_text))

(***************************************************************************)
(* analyze_format                                                          *)
(***************************************************************************)
sections == << <<"e","x","p","e","r","i","e","n","c","e">>,
               <<"e","d","u","c","a","t","i","o","n">>,
               <<"s","k","i","l","l","s">>,
               <<"s","u","m","m","a","r","y">>,
               <<"o","b","j","e","c","t","i","v","e">> >>

RECURSIVE SumLen(_)
\* sum(len(line) for line in lines)
SumLen(lines) == IF lines = <<>> THEN 0 ELSE Len(Head(lines)) + SumLen(Tail(lines))

\* [A-Z0-9._%+-] and [A-Z0-9.-] under re.I
IsEmailLocalChar(c) == IsAlpha(c) \/ IsDigit(c) \/ c \in {".", "_", "%", "+", "-"}
IsEmailDomainChar(c) == IsAlpha(c) \/ IsDigit(c) \/ c \in {".", "-"}

\* re.search(r'\b[A-Z0-9._%+-]+@[A-Z0-9.-]+\.[A-Z]{2,}\b', s, re.I)
HasEmail(s) ==
    \E at \in 2..Len(s) :
        /\ s[at] = "@"
        /\ \E i \in 1..(at - 1) :
              /\ WordBoundary(s, i)
              /\ \A k \in i..(at - 1) : IsEmailLocalChar(s[k])
        /\ \E dot \in (at + 2)..Len(s) :
              /\ s[dot] = "."
              /\ \A k \in (at + 1)..(dot - 1) : IsEmailDomainChar(s[k])
              /\ \E e \in (dot + 2)..Len(s) :
                    /\ \A k \in (dot + 1)..e : IsAlpha(s[k])
                    /\ WordBoundary(s, e + 1)

ExperienceMarkers == << <<"e","x","p","e","r","i","e","n","c","e">>, <<"w","o","r","k">>,
                        <<"e","m","p","l","o","y","m","e","n","t">> >>
EducationMarkers == << <<"e","d","u","c","a","t","i","o","n">>, <<"d","e","g","r","e","e">>,
                       <<"u","n","i","v","e","r","s","i","t","y">>,
                       <<"c","o","l","l","e","g","e">> >>
SkillsMarkers == << <<"s","k","i","l","l","s">>,
                    <<"t","e","c","h","n","o","l","o","g","i","e","s">>,
                    <<"t","o","o","l","s">> >>

\* sum([a, b, c, d]) of booleans
CountTrue(bs) == Cardinality({k \in 1..Len(bs) : bs[k]})

analyze_format(resume_text) ==
    LET lines == SplitLines(resume_text)
        low   == Lower(resume_text)
        structure_score ==
            20 * Cardinality({k \in 1..Len(sections) : Contains(low, sections[k])})
        avg_line_length == Rat(SumLen(lines), Len(lines))
        readability_score ==
            IF RLess(RInt(80), avg_line_length) THEN 60
            ELSE IF RLess(RInt(60), avg_line_length) THEN 80
            ELSE 100
        words == Len(Split(resume_text))
        technical_words ==
            Cardinality({k \in 1..Len(AllTechnicalSkills) :
                            Contains(low, Lower(AllTechnicalSkills[k]))})
        keyword_density ==
            IF words > 0
            THEN RMin(RInt(100), Rat(technical_words * 1000, words))
            ELSE RInt(0)
        has_experience == ContainsAny(low, ExperienceMarkers)
        has_education  == ContainsAny(low, EducationMarkers)
        has_skills     == ContainsAny(low, SkillsMarkers)
        has_contact    == HasEmail(resume_text)
        section_completeness ==
            CountTrue(<<has_experience, has_education, has_skills, has_contact>>) * 25
    IN  [structure_score      |-> RInt(structure_score),
         readability_score    |-> RInt(readability_score),
         keyword_density      |-> keyword_density,
         section_completeness |-> RInt(section_completeness)]

(***************************************************************************)
(* generate_suggestions                                                    *)
(***************************************************************************)
\* the fixed texts of the suggestions (lines 446-471)
Messages ==
    [ add_required |->
          << "A","d","d"," ","m","i","s","s","i","n","g"," ","r","e","q","u",
             "i","r","e","d"," ","s","k","i","l","l","s",":"," " >>,
      job_titles |->
          << "U","p","d","a","t","e"," ","j","o","b"," ","t","i","t","l","e",
             "s"," ","t","o"," ","b","e","t","t","e","r"," ","m","a","t","c",
             "h"," ","t","h","e"," ","t","a","r","g","e","t"," ","p","o","s",
             "i","t","i","o","n" >>,
      sections |->
          << "A","d","d"," ","m","i","s","s","i","n","g"," ","r","e","s","u",
             "m","e"," ","s","e","c","t","i","o","n","s"," ","(","E","x","p",
             "e","r","i","e","n","c","e",","," ","E","d","u","c","a","t","i",
             "o","n",","," ","S","k","i","l","l","s",","," ","C","o","n","t",
             "a","c","t",")" >>,
      preferred |->
          << "C","o","n","s","i","d","e","r"," ","a","d","d","i","n","g"," ",
             "p","r","e","f","e","r","r","e","d"," ","s","k","i","l","l","s",
             ":"," " >>,
      density |->
          << "I","n","c","r","e","a","s","e"," ","k","e","y","w","o","r","d",
             " ","d","e","n","s","i","t","y"," ","b","y"," ","a","d","d","i",
             "n","g"," ","m","o","r","e"," ","r","e","l","e","v","a","n","t",
             " ","t","e","c","h","n","i","c","a","l"," ","t","e","r","m","s" >>,
      experience |->
          << "H","i","g","h","l","i","g","h","t"," ","r","e","l","e","v","a",
             "n","t"," ","e","x","p","e","r","i","e","n","c","e"," ","a","n",
             "d"," ","q","u","a","n","t","i","f","y"," ","a","c","h","i","e",
             "v","e","m","e","n","t","s" >>,
      soft |->
          << "A","d","d"," ","s","o","f","t"," ","s","k","i","l","l","s",":",
             " " >>,
      readability |->
          << "I","m","p","r","o","v","e"," ","r","e","a","d","a","b","i","l",
             "i","t","y"," ","b","y"," ","u","s","i","n","g"," ","s","h","o",
             "r","t","e","r",","," ","m","o","r","e"," ","c","o","n","c","i",
             "s","e"," ","b","u","l","l","e","t"," ","p","o","i","n","t","s" >> ]

\* l[:n]
Take(l, n) == SubSeq(l, 1, IF Len(l) < n THEN Len(l) ELSE n)

RECURSIVE Join(_)
\* ', '.join(l)
Join(l) ==
    IF l = <<>> THEN <<>>
    ELSE IF Len(l) = 1 THEN l[1]
    ELSE l[1] \o <<",", " ">> \o Join(Tail(l))

\* a rule that would add its suggestion whether or not its condition holds
Rule_Unconditional(cond, msg) == <<msg>>

\* one rule: the suggestion when the condition holds, nothing otherwise
Rule(cond, msg) == IF cond THEN <<msg>> ELSE <<>>

\* a return value whose flat list would put the optional tier first
Suggestions_OptionalFirst(critical, important, optional) ==
    [suggestions  |-> optional \o important \o critical,
     improvements |-> [critical |-> critical, important |-> important,
                       optional |-> optional]]

\* lines 473-479: suggestions = critical + important + optional, returned
\* with the three tiers
Suggestions(critical, important, optional) ==
    [suggestions  |-> critical \o important \o optional,
     improvements |-> [critical |-> critical, important |-> important,
                       optional |-> optional]]

generate_suggestions(keyword_analysis, semantic_analysis, format_analysis) ==
    LET critical ==
            Rule(keyword_analysis.required.missing # <<>>,
                 Messages.add_required \o Join(Take(keyword_analysis.required.missing, 5)))
            \o Rule(RLess(semantic_analysis.job_title_match, RInt(50)), Messages.job_titles)
            \o Rule(RLess(format_analysis.section_completeness, RInt(75)), Messages.sections)
        important ==
            Rule(keyword_analysis.preferred.missing # <<>>,
                 Messages.preferred \o Join(Take(keyword_analysis.preferred.missing, 3)))
            \o Rule(RLess(format_analysis.keyword_density, RInt(2)), Messages.density)
            \o Rule(RLess(semantic_analysis.experience_level, RInt(50)), Messages.experience)
        optional ==
            Rule(keyword_analysis.soft_skills.missing # <<>>,
                 Messages.soft \o Join(Take(keyword_analysis.soft_skills.missing, 3)))
            \o Rule(RLess(format_analysis.readability_score, RInt(80)), Messages.readability)
    IN  Suggestions(critical, important, optional)

(***************************************************************************)
(* The texts the requests are drawn from.                                  *)
(***************************************************************************)
\* the job descriptions
JobPool ==
    <<
      \* 1: ''
      <<>>,
      \* 2: 'Backend NestJS Engineer'
      << "B","a","c","k","e","n","d"," ","N","e","s","t","J","S"," ","E",
         "n","g","i","n","e","e","r" >>,
      \* 3: 'I work remotely as a developer'
      << "I"," ","w","o","r","k"," ","r","e","m","o","t","e","l","y"," ",
         "a","s"," ","a"," ","d","e","v","e","l","o","p","e","r" >>,
      \* 4: 'Senior Software Engineer with Python and React, 5+ years required'
      << "S","e","n","i","o","r"," ","S","o","f","t","w","a","r","e"," ",
         "E","n","g","i","n","e","e","r"," ","w","i","t","h"," ","P","y",
         "t","h","o","n"," ","a","n","d"," ","R","e","a","c","t",","," ",
         "5","+"," ","y","e","a","r","s"," ","r","e","q","u","i","r","e",
         "d" >>,
      \* 5: 'JavaScript and SQL in an agile team'
      << "J","a","v","a","S","c","r","i","p","t"," ","a","n","d"," ","S",
         "Q","L"," ","i","n"," ","a","n"," ","a","g","i","l","e"," ","t",
         "e","a","m" >>,
      \* 6: 'CI/CD with Node.js, Docker and AWS Lambda'
      << "C","I","/","C","D"," ","w","i","t","h"," ","N","o","d","e",".",
         "j","s",","," ","D","o","c","k","e","r"," ","a","n","d"," ","A",
         "W","S"," ","L","a","m","b","d","a" >>,
      \* 7: 'Machine learning and leadership'
      << "M","a","c","h","i","n","e"," ","l","e","a","r","n","i","n","g",
         " ","a","n","d"," ","l","e","a","d","e","r","s","h","i","p" >>
    >>

\* the resume texts
ResumePool ==
    <<
      \* 1: ''
      <<>>,
      \* 2: '5 years of experience with Python'
      << "5"," ","y","e","a","r","s"," ","o","f"," ","e","x","p","e","r",
         "i","e","n","c","e"," ","w","i","t","h"," ","P","y","t","h","o",
         "n" >>,
      \* 3: 'Senior dev, 3 years experience, later 12 yrs exp'
      << "S","e","n","i","o","r"," ","d","e","v",","," ","3"," ","y","e",
         "a","r","s"," ","e","x","p","e","r","i","e","n","c","e",","," ",
         "l","a","t","e","r"," ","1","2"," ","y","r","s"," ","e","x","p" >>,
      \* 4: 'Summary\nSkills: Python, React, SQL\nEducation: BSc\nExperience: 10 years of experience\njane@mail.com'
      << "S","u","m","m","a","r","y","\n","S","k","i","l","l","s",":"," ",
         "P","y","t","h","o","n",","," ","R","e","a","c","t",","," ","S",
         "Q","L","\n","E","d","u","c","a","t","i","o","n",":"," ","B","S",
         "c","\n","E","x","p","e","r","i","e","n","c","e",":"," ","1","0",
         " ","y","e","a","r","s"," ","o","f"," ","e","x","p","e","r","i",
         "e","n","c","e","\n","j","a","n","e","@","m","a","i","l",".","c",
         "o","m" >>,
      \* 5: 'Junior graduate, agile teamwork, JavaScript'
      << "J","u","n","i","o","r"," ","g","r","a","d","u","a","t","e",",",
         " ","a","g","i","l","e"," ","t","e","a","m","w","o","r","k",",",
         " ","J","a","v","a","S","c","r","i","p","t" >>,
      \* 6: '0 years of experience, senior manager'
      << "0"," ","y","e","a","r","s"," ","o","f"," ","e","x","p","e","r",
         "i","e","n","c","e",","," ","s","e","n","i","o","r"," ","m","a",
         "n","a","g","e","r" >>,
      \* 7: 'Experienced backend engineer building NestJS services on AWS with Docker and SQL databases\n\n'
      << "E","x","p","e","r","i","e","n","c","e","d"," ","b","a","c","k",
         "e","n","d"," ","e","n","g","i","n","e","e","r"," ","b","u","i",
         "l","d","i","n","g"," ","N","e","s","t","J","S"," ","s","e","r",
         "v","i","c","e","s"," ","o","n"," ","A","W","S"," ","w","i","t",
         "h"," ","D","o","c","k","e","r"," ","a","n","d"," ","S","Q","L",
         " ","d","a","t","a","b","a","s","e","s","\n","\n" >>,
      \* 8: 'Senior engineer, mentor of junior staff'
      << "S","e","n","i","o","r"," ","e","n","g","i","n","e","e","r",",",
         " ","m","e","n","t","o","r"," ","o","f"," ","j","u","n","i","o",
         "r"," ","s","t","a","f","f" >>
    >>

\* the job titles
TitlePool ==
    <<
      \* 1: ''
      <<>>,
      \* 2: 'Python Developer'
      << "P","y","t","h","o","n"," ","D","e","v","e","l","o","p","e","r" >>,
      \* 3: 'Backend Engineer'
      << "B","a","c","k","e","n","d"," ","E","n","g","i","n","e","e","r" >>
    >>

JobTexts == Range(JobPool)
ResumeTexts == Range(ResumePool)
JobTitles == Range(TitlePool)
Requests ==
    [resume_text : ResumeTexts, job_description : JobTexts, job_title : JobTitles]

\* the texts of direct calculate_semantic_similarity calls: texts of stop
\* words only, of one-letter words only, without any word, and ordinary ones
SimilarityPool ==
    <<
      \* 1: ''
      <<>>,
      \* 2: 'the and'
      << "t","h","e"," ","a","n","d" >>,
      \* 3: 'The of'
      << "T","h","e"," ","o","f" >>,
      \* 4: 'Python Developer'
      << "P","y","t","h","o","n"," ","D","e","v","e","l","o","p","e","r" >>,
      \* 5: 'Senior Python developer with Python'
      << "S","e","n","i","o","r"," ","P","y","t","h","o","n"," ","d","e",
         "v","e","l","o","p","e","r"," ","w","i","t","h"," ","P","y","t",
         "h","o","n" >>,
      \* 6: 'Backend Engineer'
      << "B","a","c","k","e","n","d"," ","E","n","g","i","n","e","e","r" >>,
      \* 7: '- /'
      << "-"," ","/" >>,
      \* 8: 'and the'
      << "a","n","d"," ","t","h","e" >>,
      \* 9: 'a b'
      << "a"," ","b" >>,
      \* 10: 'b c'
      << "b"," ","c" >>
    >>

\* the terms (first argument) of direct _exact_word_match calls
MatchTermPool ==
    <<
      \* 1: ''
      <<>>,
      \* 2: 'c# developer'
      << "c","#"," ","d","e","v","e","l","o","p","e","r" >>,
      \* 3: 'asp.net'
      << "a","s","p",".","n","e","t" >>,
      \* 4: 'c++'
      << "c","+","+" >>,
      \* 5: 'React Native'
      << "R","e","a","c","t"," ","N","a","t","i","v","e" >>,
      \* 6: 'reactjs'
      << "r","e","a","c","t","j","s" >>,
      \* 7: 'remote work'
      << "r","e","m","o","t","e"," ","w","o","r","k" >>,
      \* 8: 'vue.js framework'
      << "v","u","e",".","j","s"," ","f","r","a","m","e","w","o","r","k" >>,
      \* 9: 'javascript'
      << "j","a","v","a","s","c","r","i","p","t" >>,
      \* 10: '-'
      << "-" >>,
      \* 11: 'go'
      << "g","o" >>
    >>
\* the skills (second argument) of direct _exact_word_match calls
MatchSkillPool ==
    <<
      \* 1: 'C#'
      << "C","#" >>,
      \* 2: '.net'
      << ".","n","e","t" >>,
      \* 3: 'c++'
      << "c","+","+" >>,
      \* 4: 'react'
      << "r","e","a","c","t" >>,
      \* 5: 'r'
      << "r" >>,
      \* 6: 'vue.js'
      << "v","u","e",".","j","s" >>,
      \* 7: 'java'
      << "j","a","v","a" >>,
      \* 8: 'go'
      << "g","o" >>,
      \* 9: 'scikit-learn'
      << "s","c","i","k","i","t","-","l","e","a","r","n" >>,
      \* 10: 'react native'
      << "r","e","a","c","t"," ","n","a","t","i","v","e" >>
    >>

\* the lengths of resume_text and of job_description, and the numbers of
\* matched required and preferred keywords, of the confidence computations
LengthPool == {0, 1, 35, 1000, 1667, 3334, 100001}
MatchedPool == {0, 1, 2, 50}

\* the texts of direct extract_keywords calls, and the category arguments
TextPool == JobPool \o ResumePool
CategoryList == <<"required", "preferred", "industry", "soft", "other">>
\* the two values of `if self.nlp`
StrategyList == <<FALSE, TRUE>>

(***************************************************************************)
(* Evaluation tables.  The engine's functions are pure, so their values on *)
(* the texts of the pools are computed once and looked up.                 *)
(* ExtractKeywords, Similarity, ExperienceLevel and FormatAnalysis are     *)
(* extract_keywords, calculate_semantic_similarity,                        *)
(* detect_experience_level and analyze_format on those texts, value for    *)
(* value.                                                                  *)
(***************************************************************************)
KeywordsTable ==
    [n \in 1..Len(StrategyList) |-> [s \in 1..NumSeeds |->
        [t \in 1..Len(TextPool) |-> [c \in 1..Len(CategoryList) |->
            extract_keywords(StrategyList[n], s, TextPool[t], CategoryList[c])]]]]
ExtractKeywords(loaded, s, text, category) ==
    KeywordsTable[IndexOf(loaded, StrategyList)][s]
                 [IndexOf(text, TextPool)][IndexOf(category, CategoryList)]

\* every result of extract_keywords_fallback, computed once per hash seed
FallbackTable ==
    [s \in 1..NumSeeds |-> [t \in 1..Len(TextPool) |->
        [c \in 1..Len(CategoryList) |->
            extract_keywords_fallback(s, TextPool[t], CategoryList[c])]]]
FallbackKeywords(s, text, category) ==
    FallbackTable[s][IndexOf(text, TextPool)][IndexOf(category, CategoryList)]

SimilarityTable ==
    [r \in 1..Len(ResumePool) |-> [x \in 1..Len(JobPool \o TitlePool) |->
        calculate_semantic_similarity(ResumePool[r], (JobPool \o TitlePool)[x])]]
Similarity(text1, text2) ==
    SimilarityTable[IndexOf(text1, ResumePool)][IndexOf(text2, JobPool \o TitlePool)]

DirectSimilarityTable ==
    [a \in 1..Len(SimilarityPool) |-> [b \in 1..Len(SimilarityPool) |->
        calculate_semantic_similarity(SimilarityPool[a], SimilarityPool[b])]]

\* re.search(years_pattern, resume_text.lower()) on the resume texts
YearsTable ==
    [r \in 1..Len(ResumePool) |-> YearsSearch(Lower(ResumePool[r]))]
YearsMatch(resume_text) == YearsTable[IndexOf(resume_text, ResumePool)]

ExperienceTable ==
    [r \in 1..Len(ResumePool) |-> detect_experience_level(ResumePool[r])]
ExperienceLevel(resume_text) ==
    ExperienceTable[IndexOf(resume_text, ResumePool)]

FormatTable ==
    [r \in 1..Len(ResumePool) |-> analyze_format(ResumePool[r])]
FormatAnalysis(resume_text) ==
    FormatTable[IndexOf(resume_text, ResumePool)]

(***************************************************************************)
(* compute_ats_score                                                       *)
(***************************************************************************)
Tenths(k) == Rat(k, 10)
Hundredths(k) == Rat(k, 100)

\* an entry of keyword_analysis that would score an empty keyword list 0
KeywordMatch_EmptyScoresZero(keywords, resume_text) ==
    LET low     == Lower(resume_text)
        matched == SelectSeq(keywords, LAMBDA k : Contains(low, Lower(k)))
        missing == SelectSeq(keywords, LAMBDA k : ~Contains(low, Lower(k)))
    IN  [matched |-> matched,
         missing |-> missing,
         score   |-> IF keywords # <<>>
                     THEN RMul(Rat(Len(matched), Len(keywords)), RInt(100))
                     ELSE RInt(0)]

\* an entry of keyword_analysis that would list every keyword as missing
KeywordMatch_AllMissing(keywords, resume_text) ==
    LET low     == Lower(resume_text)
        matched == SelectSeq(keywords, LAMBDA k : Contains(low, Lower(k)))
    IN  [matched |-> matched,
         missing |-> keywords,
         score   |-> IF keywords # <<>>
                     THEN RMul(Rat(Len(matched), Len(keywords)), RInt(100))
                     ELSE RInt(100)]

\* one entry of keyword_analysis (lines 491-530)
KeywordMatch(keywords, resume_text) ==
    LET low     == Lower(resume_text)
        matched == SelectSeq(keywords, LAMBDA k : Contains(low, Lower(k)))
        missing == SelectSeq(keywords, LAMBDA k : ~Contains(low, Lower(k)))
    IN  [matched |-> matched,
         missing |-> missing,
         score   |-> IF keywords # <<>>
                     THEN RMul(Rat(Len(matched), Len(keywords)), RInt(100))
                     ELSE RInt(100)]

\* a keyword_score into which the soft_skills score would enter in place of
\* the industry score
KeywordScore_SoftSkills(keyword_analysis) ==
    RAdd(RAdd(RMul(keyword_analysis.required.score, Tenths(5)),
              RMul(keyword_analysis.preferred.score, Tenths(3))),
         RMul(keyword_analysis.soft_skills.score, Tenths(2)))

\* keyword_score (lines 552-556)
KeywordScore(keyword_analysis) ==
    RAdd(RAdd(RMul(keyword_analysis.required.score, Tenths(5)),
              RMul(keyword_analysis.preferred.score, Tenths(3))),
         RMul(keyword_analysis.industry.score, Tenths(2)))

\* semantic_score (lines 558-563)
SemanticScore(semantic_analysis) ==
    RAdd(RAdd(RAdd(RMul(semantic_analysis.job_title_match, Tenths(3)),
                   RMul(semantic_analysis.industry_alignment, Tenths(3))),
              RMul(semantic_analysis.experience_level, Tenths(2))),
         RMul(semantic_analysis.responsibility_match, Tenths(2)))

\* format_score (lines 565-570)
FormatScore(format_analysis) ==
    RAdd(RAdd(RAdd(RMul(format_analysis.structure_score, Tenths(3)),
                   RMul(format_analysis.readability_score, Tenths(3))),
              RMul(format_analysis.keyword_density, Tenths(2))),
         RMul(format_analysis.section_completeness, Tenths(2)))

\* an experience_score into which the detected experience level would enter
\* in place of relevant_experience
ExperienceScore_WithLevel(experience_analysis) ==
    RAdd(RAdd(RMul(experience_analysis.years_of_experience, Tenths(4)),
              RMul(experience_analysis.project_match, Tenths(3))),
         RMul(experience_analysis.achievement_alignment, Tenths(3)))

\* experience_score (lines 572-576)
ExperienceScore(experience_analysis) ==
    RAdd(RAdd(RMul(experience_analysis.relevant_experience, Tenths(4)),
              RMul(experience_analysis.project_match, Tenths(3))),
         RMul(experience_analysis.achievement_alignment, Tenths(3)))

\* an overall_score that would weigh the four component scores equally
OverallScore_EqualWeights(keyword_score, semantic_score, format_score, experience_score) ==
    RMul(RAdd(RAdd(RAdd(keyword_score, semantic_score), format_score),
              experience_score),
         Hundredths(25))

\* overall_score (lines 579-584)
OverallScore(keyword_score, semantic_score, format_score, experience_score) ==
    RAdd(RAdd(RAdd(RMul(keyword_score, Hundredths(35)),
                   RMul(semantic_score, Hundredths(25))),
              RMul(format_score, Hundredths(20))),
         RMul(experience_score, Hundredths(20)))

\* confidence (lines 592-596), given len(resume_text), len(job_description)
\* and the number of matched required and preferred keywords; the mutant
\* below leaves out the cap
Confidence_Uncapped(resume_len, description_len, matched_count) ==
    RAdd(RAdd(RMul(Rat(resume_len, 1000), RInt(30)),
              RMul(Rat(description_len, 1000), RInt(30))),
         RInt(matched_count * 2))
Confidence(resume_len, description_len, matched_count) ==
    RMin(RInt(100),
         RAdd(RAdd(RMul(Rat(resume_len, 1000), RInt(30)),
                   RMul(Rat(description_len, 1000), RInt(30))),
              RInt(matched_count * 2)))

\* keyword_analysis (lines 491-530): the keywords of the job description, by
\* category, matched against the resume
KeywordAnalysis(nlp, seed, resume_text, job_description) ==
    [required    |-> KeywordMatch(ExtractKeywords(nlp, seed, job_description, "required"),
                                  resume_text),
     preferred   |-> KeywordMatch(ExtractKeywords(nlp, seed, job_description, "preferred"),
                                  resume_text),
     industry    |-> KeywordMatch(ExtractKeywords(nlp, seed, job_description, "industry"),
                                  resume_text),
     soft_skills |-> KeywordMatch(ExtractKeywords(nlp, seed, job_description, "soft"),
                                  resume_text)]

\* lines 532-611: the result, given the keyword analysis, the similarity of
\* the resume to the job title and to the job description, the detected
\* experience level and the format analysis
AtsScoreResult(resume_text, job_description, keyword_analysis, title_similarity, description_similarity, level, format_analysis) ==
    LET semantic_analysis ==
            [job_title_match      |-> RMul(title_similarity, RInt(100)),
             industry_alignment   |-> keyword_analysis.industry.score,
             experience_level     |-> RInt(level),
             responsibility_match |-> RMul(description_similarity, RInt(100))]
        experience_analysis ==
            [years_of_experience   |-> RInt(level),
             relevant_experience   |-> semantic_analysis.responsibility_match,
             project_match         |-> RMul(description_similarity, RInt(100)),
             achievement_alignment |-> semantic_analysis.responsibility_match]
        keyword_score    == KeywordScore(keyword_analysis)
        semantic_score   == SemanticScore(semantic_analysis)
        format_score     == FormatScore(format_analysis)
        experience_score == ExperienceScore(experience_analysis)
        overall_score    == OverallScore(keyword_score, semantic_score,
                                         format_score, experience_score)
        generated == generate_suggestions(keyword_analysis, semantic_analysis,
                                          format_analysis)
        confidence == Confidence(Len(resume_text), Len(job_description),
                                 Len(keyword_analysis.required.matched)
                                   + Len(keyword_analysis.preferred.matched))
    IN  [overall_score       |-> Round1(overall_score),
         keyword_score       |-> Round1(keyword_score),
         semantic_score      |-> Round1(semantic_score),
         format_score        |-> Round1(format_score),
         experience_score    |-> Round1(experience_score),
         keyword_analysis    |-> keyword_analysis,
         semantic_analysis   |-> semantic_analysis,
         format_analysis     |-> format_analysis,
         experience_analysis |-> experience_analysis,
         suggestions         |-> generated.suggestions,
         improvements        |-> generated.improvements,
         confidence          |-> Round1(confidence)]

compute_ats_score(nlp, seed, resume_text, job_description, job_title) ==
    AtsScoreResult(resume_text, job_description,
                   KeywordAnalysis(nlp, seed, resume_text, job_description),
                   Similarity(resume_text, job_title),
                   Similarity(resume_text, job_description),
                   ExperienceLevel(resume_text),
                   FormatAnalysis(resume_text))

(***************************************************************************)
(* The state machine.  A process constructs an AtsService (Start: the      *)
(* ats_service = AtsService() of the callers) and then makes calls.  Under *)
(* Spec the calls are compute_ats_score calls, all made with the request   *)
(* of the behaviour, so that two calls of one behaviour are calls with     *)
(* identical inputs.  Under SpecExtract the calls are direct               *)
(* extract_keywords calls on any text and category.  Under SpecCalls they  *)
(* are direct similarity and confidence computations.  Under SpecThreads   *)
(* two threads run compute_ats_score step by step on the AtsService of one *)
(* process.  Under SpecServer a process answers requests, each handler     *)
(* constructing its own AtsService.                                        *)
(***************************************************************************)
Procs == {"p1", "p2"}
MaxCalls == 2
\* nlp.max_length of the loaded spaCy pipeline
max_length == 1000000
\* the number of requests a server process answers
MaxRequests == 2
\* generic_jd of analyze_resume_only:
\* 'Software Engineer with experience in programming, development, and technical skills.'
generic_jd ==
    << "S","o","f","t","w","a","r","e"," ","E","n","g","i","n","e","e",
       "r"," ","w","i","t","h"," ","e","x","p","e","r","i","e","n","c",
       "e"," ","i","n"," ","p","r","o","g","r","a","m","m","i","n","g",
       ","," ","d","e","v","e","l","o","p","m","e","n","t",","," ","a",
       "n","d"," ","t","e","c","h","n","i","c","a","l"," ","s","k","i",
       "l","l","s","." >>
\* the threads that call the AtsService of process "p1", and their requests
Threads == {"t1", "t2"}
ThreadRequests ==
    [resume_text : {ResumePool[4], ResumePool[5]},
     job_description : {JobPool[4], JobPool[5]},
     job_title : {TitlePool[2]}]
RECURSIVE Str(_)
\* the str value whose characters are those of w
Str(w) == IF w = <<>> THEN "" ELSE Head(w) \o Str(Tail(w))
\* what __init__ assigns to self.technical_skills, self.soft_skills and
\* self.industry_keywords (lines 35-82)
Database ==
    [technical_skills  |->
         Tup([c \in 1..Len(technical_skills) |->
                 Tup([k \in 1..Len(technical_skills[c]) |->
                         Str(technical_skills[c][k])])]),
     soft_skills       |-> Tup([k \in 1..Len(soft_skills) |-> Str(soft_skills[k])]),
     industry_keywords |->
         Tup([c \in 1..Len(industry_keywords) |->
                 Tup([k \in 1..Len(industry_keywords[c]) |->
                         Str(industry_keywords[c][k])])])]
\* local variables that would be kept in one place for all threads
LocalsOf_Shared(t) == "t1"
\* the local variables of a compute_ats_score call are those of the frame of
\* the calling thread
LocalsOf(t) == t

VARIABLES
    request,     \* (resume_text, job_description, job_title) passed to the calls
    up,          \* up[p]: process p has constructed its AtsService
    self_nlp,    \* self_nlp[p]: self.nlp is a loaded model (TRUE) or None (FALSE)
    hash_seed,   \* hash_seed[p]: the string-hash seed of process p
    results,     \* results[p]: the AtsScoreResults returned in p, in call order
    extraction,  \* the last direct extract_keywords call and its return value
    call,        \* the last similarity or confidence computation and its value
    self_db,     \* self_db[p]: self.technical_skills, self.soft_skills and
                 \* self.industry_keywords of the AtsService of process p
    frame,       \* frame[t]: the compute_ats_score call of thread t on the
                 \* AtsService of process "p1": its position, arguments, local
                 \* variables and return value
    loads,       \* loads[p]: how many times process p has loaded the spaCy model
    responses    \* responses[p]: the answers of the request handlers of the
                 \* server process p, in the order of the requests

vars == <<request, up, self_nlp, hash_seed, results, extraction, call, self_db, frame, loads, responses>>

NoCall == [proc |-> "none", text |-> <<>>, padding |-> 0, category |-> "none", raised |-> FALSE, keywords |-> <<>>]
NoValue == [fn |-> "none", proc |-> "none", text1 |-> <<>>, text2 |-> <<>>, resume_len |-> 0, description_len |-> 0, matched_count |-> 0, value |-> RInt(0)]
NoFrame == [pc |-> "idle", args |-> <<>>, keyword_analysis |-> <<>>, title_similarity |-> <<>>, description_similarity |-> <<>>, level |-> 0, format_analysis |-> <<>>, result |-> <<>>]
NoRequest == [resume_text |-> <<>>, job_description |-> <<>>, job_title |-> <<>>]

\* every result of compute_ats_score, computed once per engine configuration
ScoreTable ==
    [n \in 1..Len(StrategyList) |-> [s \in 1..NumSeeds |->
        [r \in 1..Len(ResumePool) |-> [j \in 1..Len(JobPool) |->
            [t \in 1..Len(TitlePool) |->
                compute_ats_score(StrategyList[n], s, ResumePool[r], JobPool[j],
                                  TitlePool[t])]]]]]
ScoreOf(loaded, s, req) ==
    ScoreTable[IndexOf(loaded, StrategyList)][s]
              [IndexOf(req.resume_text, ResumePool)]
              [IndexOf(req.job_description, JobPool)]
              [IndexOf(req.job_title, TitlePool)]

Down ==
    /\ up = [p \in Procs |-> FALSE]
    /\ self_nlp = [p \in Procs |-> FALSE]
    /\ hash_seed = [p \in Procs |-> 1]
    /\ results = [p \in Procs |-> <<>>]
    /\ extraction = NoCall
    /\ call = NoValue
    /\ self_db = [p \in Procs |-> <<>>]
    /\ frame = [t \in Threads |-> NoFrame]
    /\ loads = [p \in Procs |-> 0]
    /\ responses = [p \in Procs |-> <<>>]

Init == request \in Requests /\ Down

InitExtract == request = NoRequest /\ Down

\* AtsService.__init__ in a fresh process: the keyword database is fixed; the
\* backend is loaded when spaCy and its model are available, else self.nlp is
\* None; the interpreter has drawn the process's string-hash seed
Start(p) ==
    /\ ~up[p]
    /\ \E available \in BOOLEAN, s \in Seeds :
          /\ self_nlp' = [self_nlp EXCEPT ![p] = available]
          /\ hash_seed' = [hash_seed EXCEPT ![p] = s]
          /\ loads' = [loads EXCEPT ![p] = IF available THEN @ + 1 ELSE @]
    /\ up' = [up EXCEPT ![p] = TRUE]
    /\ self_db' = [self_db EXCEPT ![p] = Database]
    /\ UNCHANGED <<request, results, extraction, call, frame, responses>>

\* one call of compute_ats_score in process p
Score(p) ==
    /\ up[p]
    /\ Len(results[p]) < MaxCalls
    /\ results' = [results EXCEPT ![p] =
                       Append(@, ScoreOf(self_nlp[p], hash_seed[p], request))]
    /\ UNCHANGED <<request, up, self_nlp, hash_seed, extraction, call, self_db, frame, loads, responses>>

\* one call of extract_keywords(text + ' ' * padding, category) in process p.
\* With a loaded model the call reaches self.nlp(text.lower()) (line 128),
\* which raises ValueError for a text of more than nlp.max_length characters;
\* nothing on the way catches it.  Without one, the trailing spaces add no
\* occurrence of a term to the normalised text.
Extract(p) ==
    /\ up[p]
    /\ \E t \in 1..Len(TextPool), c \in 1..Len(CategoryList),
          padding \in {0, max_length + 1} :
          LET raised == self_nlp[p] /\ Len(TextPool[t]) + padding > max_length
          IN  extraction' =
                  [proc     |-> p,
                   text     |-> TextPool[t],
                   padding  |-> padding,
                   category |-> CategoryList[c],
                   raised   |-> raised,
                   keywords |-> IF raised THEN <<>>
                                ELSE ExtractKeywords(self_nlp[p], hash_seed[p],
                                                     TextPool[t], CategoryList[c])]
    /\ UNCHANGED <<request, up, self_nlp, hash_seed, results, call, self_db, frame, loads, responses>>

\* one call of calculate_semantic_similarity(text1, text2) in process p
Similar(p) ==
    /\ up[p]
    /\ \E a \in 1..Len(SimilarityPool), b \in 1..Len(SimilarityPool) :
          call' = [NoValue EXCEPT !.fn = "similarity", !.proc = p,
                                  !.text1 = SimilarityPool[a],
                                  !.text2 = SimilarityPool[b],
                                  !.value = DirectSimilarityTable[a][b]]
    /\ UNCHANGED <<request, up, self_nlp, hash_seed, results, extraction, self_db, frame, loads, responses>>

\* one call of _exact_word_match(term, skill) in process p
Match(p) ==
    /\ up[p]
    /\ \E a \in 1..Len(MatchTermPool), b \in 1..Len(MatchSkillPool) :
          call' = [NoValue EXCEPT !.fn = "_exact_word_match", !.proc = p,
                                  !.text1 = MatchTermPool[a],
                                  !.text2 = MatchSkillPool[b],
                                  !.value = exact_word_match(MatchTermPool[a],
                                                             MatchSkillPool[b])]
    /\ UNCHANGED <<request, up, self_nlp, hash_seed, results, extraction, self_db, frame, loads, responses>>

\* the confidence of a compute_ats_score call in process p (lines 592-596 and
\* 610) whose texts have the given lengths and whose keyword analysis has the
\* given number of matched required and preferred keywords
Confide(p) ==
    /\ up[p]
    /\ \E resume_len \in LengthPool, description_len \in LengthPool,
          matched_count \in MatchedPool :
          call' = [NoValue EXCEPT !.fn = "confidence", !.proc = p,
                                  !.resume_len = resume_len,
                                  !.description_len = description_len,
                                  !.matched_count = matched_count,
                                  !.value = Round1(Confidence(resume_len,
                                                              description_len,
                                                              matched_count))]
    /\ UNCHANGED <<request, up, self_nlp, hash_seed, results, extraction, self_db, frame, loads, responses>>

Next == \E p \in Procs : Start(p) \/ Score(p)

Spec == Init /\ [][Next]_vars

\* compute_ats_score calls on the engine of one process
NextEngine == Start("p1") \/ Score("p1")

SpecEngine == Init /\ [][NextEngine]_vars

NextExtract == \E p \in Procs : Start(p) \/ Extract(p)

SpecExtract == InitExtract /\ [][NextExtract]_vars

\* extract_keywords calls on the engine of one process
NextStrategy == Start("p1") \/ Extract("p1")

SpecStrategy == InitExtract /\ [][NextStrategy]_vars

\* thread t calls compute_ats_score(resume_text, job_description, job_title)
\* on the AtsService of process "p1"; the local variables of the call are
\* assigned by its steps before they are read
Enter(t) ==
    /\ up["p1"]
    /\ frame[t].pc \in {"idle", "done"}
    /\ \E req \in ThreadRequests :
          frame' = [frame EXCEPT ![t].pc = "keywords", ![t].args = req,
                                 ![t].result = <<>>]
    /\ UNCHANGED <<request, up, self_nlp, hash_seed, results, extraction, call, self_db, loads, responses>>

\* lines 486-530 of the call of thread t: the four extract_keywords calls and
\* keyword_analysis
KeywordStep(t) ==
    /\ frame[t].pc = "keywords"
    /\ frame' = [frame EXCEPT
                    ![LocalsOf(t)].keyword_analysis =
                        KeywordAnalysis(self_nlp["p1"], hash_seed["p1"],
                                        frame[t].args.resume_text,
                                        frame[t].args.job_description),
                    ![t].pc = "analysis"]
    /\ UNCHANGED <<request, up, self_nlp, hash_seed, results, extraction, call, self_db, loads, responses>>

\* lines 533-549 of the call of thread t: the similarities, the experience
\* level and the format analysis
AnalysisStep(t) ==
    /\ frame[t].pc = "analysis"
    /\ frame' = [frame EXCEPT
                    ![LocalsOf(t)].title_similarity =
                        Similarity(frame[t].args.resume_text, frame[t].args.job_title),
                    ![LocalsOf(t)].description_similarity =
                        Similarity(frame[t].args.resume_text,
                                   frame[t].args.job_description),
                    ![LocalsOf(t)].level = ExperienceLevel(frame[t].args.resume_text),
                    ![LocalsOf(t)].format_analysis =
                        FormatAnalysis(frame[t].args.resume_text),
                    ![t].pc = "scores"]
    /\ UNCHANGED <<request, up, self_nlp, hash_seed, results, extraction, call, self_db, loads, responses>>

\* lines 552-611 of the call of thread t: the scores, the suggestions, the
\* confidence and the return
Return(t) ==
    /\ frame[t].pc = "scores"
    /\ frame' = [frame EXCEPT
                    ![t].result =
                        AtsScoreResult(frame[t].args.resume_text,
                                       frame[t].args.job_description,
                                       frame[LocalsOf(t)].keyword_analysis,
                                       frame[LocalsOf(t)].title_similarity,
                                       frame[LocalsOf(t)].description_similarity,
                                       frame[LocalsOf(t)].level,
                                       frame[LocalsOf(t)].format_analysis),
                    ![t].pc = "done"]
    /\ UNCHANGED <<request, up, self_nlp, hash_seed, results, extraction, call, self_db, loads, responses>>

(***************************************************************************)
(* The request handlers of the server (api/v1/endpoints/ats.py).  Every    *)
(* request of a behaviour carries the texts of `request`; a referenced     *)
(* resume or job posting is either missing or holds those texts.  The      *)
(* authenticated handlers run for an authenticated user.                   *)
(***************************************************************************)
\* `not text` of a request field (lines 94, 105, 246, 271)
Missing_Never(text) == FALSE
Missing(text) == text = <<>>

\* raise HTTPException(status_code=status): no engine is constructed
Reject(p, endpoint, status) ==
    /\ responses' = [responses EXCEPT ![p] =
                         Append(@, [endpoint |-> endpoint, status |-> status,
                                    scored |-> FALSE, raised |-> FALSE,
                                    padding |-> 0, args |-> NoRequest])]
    /\ UNCHANGED <<up, self_nlp, hash_seed, self_db, loads>>

\* ats_service = AtsService(); try: ats_service.compute_ats_score(
\* resume_text, job_description + ' ' * padding, job_title) except Exception:
\* raise HTTPException(500); return AtsScoreResponse(...).  The constructor
\* runs as in Start, in a process whose hash seed is drawn once.  With a
\* loaded model the call raises ValueError at self.nlp(text.lower())
\* (ats_service.py line 128) for a job description of more than
\* nlp.max_length characters.
Serve(p, endpoint, paddings, resume_text, job_description, job_title) ==
    \E available \in BOOLEAN, s \in Seeds, padding \in paddings :
        /\ self_nlp' = [self_nlp EXCEPT ![p] = available]
        /\ hash_seed' = [hash_seed EXCEPT ![p] = IF up[p] THEN @ ELSE s]
        /\ loads' = [loads EXCEPT ![p] = IF available THEN @ + 1 ELSE @]
        /\ up' = [up EXCEPT ![p] = TRUE]
        /\ self_db' = [self_db EXCEPT ![p] = Database]
        /\ LET raised == available /\ Len(job_description) + padding > max_length
           IN  responses' =
                   [responses EXCEPT ![p] =
                        Append(@, [endpoint |-> endpoint,
                                   status |-> IF raised THEN 500 ELSE 200,
                                   scored |-> TRUE, raised |-> raised,
                                   padding |-> padding,
                                   args |-> [resume_text |-> resume_text,
                                             job_description |-> job_description,
                                             job_title |-> job_title]])]

\* POST /test-score (lines 92-126)
test_score_resume(p) ==
    /\ Len(responses[p]) < MaxRequests
    /\ IF Missing(request.resume_text) THEN Reject(p, "/test-score", 400)
       ELSE IF Missing(request.job_description) THEN Reject(p, "/test-score", 400)
       ELSE Serve(p, "/test-score", {0, max_length + 1}, request.resume_text,
                  request.job_description, request.job_title)
    /\ UNCHANGED <<request, results, extraction, call, frame>>

\* POST /score-resume (lines 227-286)
score_resume(p) ==
    /\ Len(responses[p]) < MaxRequests
    /\ \E resume_missing \in BOOLEAN, posting_missing \in BOOLEAN :
          IF resume_missing THEN Reject(p, "/score-resume", 404)
          ELSE IF Missing(request.resume_text) THEN Reject(p, "/score-resume", 400)
          ELSE IF posting_missing THEN Reject(p, "/score-resume", 404)
          ELSE IF Missing(request.job_description) THEN Reject(p, "/score-resume", 400)
          ELSE Serve(p, "/score-resume", {0, max_length + 1}, request.resume_text,
                     request.job_description, request.job_title)
    /\ UNCHANGED <<request, results, extraction, call, frame>>

\* POST /analyze-resume (lines 378-417)
analyze_resume_only(p) ==
    /\ Len(responses[p]) < MaxRequests
    /\ \E resume_missing \in BOOLEAN :
          IF resume_missing THEN Reject(p, "/analyze-resume", 404)
          ELSE IF Missing(request.resume_text) THEN Reject(p, "/analyze-resume", 400)
          ELSE Serve(p, "/analyze-resume", {0}, request.resume_text, generic_jd, <<>>)
    /\ UNCHANGED <<request, results, extraction, call, frame>>

NextServer ==
    test_score_resume("p1") \/ score_resume("p1") \/ analyze_resume_only("p1")

SpecServer == Init /\ [][NextServer]_vars

NextThreads ==
    \/ Start("p1")
    \/ \E t \in Threads : Enter(t) \/ KeywordStep(t) \/ AnalysisStep(t) \/ Return(t)

SpecThreads == InitExtract /\ [][NextThreads]_vars

\* direct similarity, confidence and word-match computations; they read
\* nothing of the engine, so one process makes them
NextCalls == Start("p1") \/ Similar("p1") \/ Confide("p1") \/ Match("p1")

SpecCalls == InitExtract /\ [][NextCalls]_vars

(***************************************************************************)
(* Properties of compute_ats_score, stated on the results returned under   *)
(* Spec.                                                                   *)
(***************************************************************************)

\* C1: two calls of compute_ats_score with identical inputs, in the same
\* process or in two processes that run the same extraction strategy,
\* return identical results in every field, the order of the keyword lists
\* and the text of the suggestions included.
C1_Determinism ==
    \A p \in Procs, q \in Procs :
        self_nlp[p] = self_nlp[q] =>
            \A r1 \in Range(results[p]), r2 \in Range(results[q]) : r1 = r2

C3_EmptyJob ==
    \A p \in Procs : \A r \in Range(results[p]) :
        (request.job_description = <<>> /\ request.job_title = <<>>) =>
            /\ r.keyword_analysis.required.score = RInt(100)
            /\ r.keyword_analysis.preferred.score = RInt(100)
            /\ r.keyword_analysis.industry.score = RInt(100)
            /\ r.keyword_analysis.soft_skills.score = RInt(100)
            /\ r.overall_score =
                   Round1(RAdd(RAdd(Rat(425, 10),
                                    RMul(RInt(ExperienceLevel(request.resume_text)),
                                         Hundredths(5))),
                               RMul(FormatScore(FormatAnalysis(request.resume_text)),
                                    Tenths(2))))

\* a call with a non-empty resume, an empty job description and an empty job
\* title has returned
C3_Witness ==
    \E p \in Procs :
        /\ results[p] # <<>>
        /\ request.resume_text # <<>>
        /\ request.job_description = <<>>
        /\ request.job_title = <<>>

\* C8: for each of the four categories the result partitions the keywords
\* extracted from the job description into matched (the lower-cased keyword
\* is a substring of the lower-cased resume) and missing (it is not),
\* disjoint and together the extracted set, and the score is
\* 100 * |matched| / |extracted|, or 100 when nothing was extracted.
C8_KeywordPartition ==
    \A p \in Procs : \A r \in Range(results[p]) :
        LET low == Lower(request.resume_text)
            Extracted(c) ==
                Range(ExtractKeywords(self_nlp[p], hash_seed[p],
                                      request.job_description, c))
            Partitioned(entry, kws) ==
                /\ Range(entry.matched) = {k \in kws : Contains(low, Lower(k))}
                /\ Range(entry.missing) = kws \ Range(entry.matched)
                /\ Range(entry.matched) \cap Range(entry.missing) = {}
                /\ Range(entry.matched) \cup Range(entry.missing) = kws
                /\ entry.score =
                       IF kws = {} THEN RInt(100)
                       ELSE Rat(100 * Cardinality(Range(entry.matched)),
                                Cardinality(kws))
        IN  /\ Partitioned(r.keyword_analysis.required, Extracted("required"))
            /\ Partitioned(r.keyword_analysis.preferred, Extracted("preferred"))
            /\ Partitioned(r.keyword_analysis.industry, Extracted("industry"))
            /\ Partitioned(r.keyword_analysis.soft_skills, Extracted("soft"))

\* a result whose required keywords are partly matched and partly missing
C8_Witness ==
    \E p \in Procs : \E r \in Range(results[p]) :
        /\ r.keyword_analysis.required.matched # <<>>
        /\ r.keyword_analysis.required.missing # <<>>
        /\ RLess(RInt(0), r.keyword_analysis.required.score)
        /\ RLess(r.keyword_analysis.required.score, RInt(100))

\* C9: the overall score is 0.35 * keyword score + 0.25 * semantic score
\* + 0.20 * format score + 0.20 * experience score, taken on the unrounded
\* component scores and then rounded to one decimal.
C9_OverallWeights ==
    \A p \in Procs : \A r \in Range(results[p]) :
        r.overall_score =
            Round1(RAdd(RAdd(RAdd(RMul(KeywordScore(r.keyword_analysis), Rat(35, 100)),
                                  RMul(SemanticScore(r.semantic_analysis), Rat(25, 100))),
                             RMul(FormatScore(r.format_analysis), Rat(20, 100))),
                        RMul(ExperienceScore(r.experience_analysis), Rat(20, 100))))

\* a result whose overall score differs from the one the rounded component
\* scores would give, the keyword, semantic and format scores being positive
C9_Witness ==
    \E p \in Procs : \E r \in Range(results[p]) :
        /\ r.keyword_score.n > 0 /\ r.semantic_score.n > 0
        /\ r.format_score.n > 0
        /\ r.overall_score #
               Round1(RAdd(RAdd(RAdd(RMul(r.keyword_score, Rat(35, 100)),
                                     RMul(r.semantic_score, Rat(25, 100))),
                                RMul(r.format_score, Rat(20, 100))),
                           RMul(r.experience_score, Rat(20, 100))))

\* C10: when the leftmost years phrase of the resume carries an integer
\* N >= 1, the experience level is 100, 85, 70, 55 or 40 by the thresholds
\* N >= 10, 7, 5, 3, 1, whatever later years phrases and seniority words the
\* resume holds, and the result reports it as years_of_experience.
C10_YearsThresholds ==
    \A p \in Procs : \A r \in Range(results[p]) :
        LET match == YearsMatch(request.resume_text)
            N     == match.years
        IN  (match.found /\ N >= 1) =>
                r.experience_analysis.years_of_experience =
                    RInt(IF N >= 10 THEN 100
                         ELSE IF N >= 7 THEN 85
                         ELSE IF N >= 5 THEN 70
                         ELSE IF N >= 3 THEN 55
                         ELSE 40)

\* a result for the resume "Senior dev, 3 years experience, later 12 yrs exp":
\* 55, by the first phrase, not 100 by the later one nor 80 by "senior"
C10_Witness ==
    \E p \in Procs : \E r \in Range(results[p]) :
        /\ request.resume_text = ResumePool[3]
        /\ YearsMatch(request.resume_text).years = 3
        /\ SeniorityLevel(Lower(request.resume_text)) = 80
        /\ r.experience_analysis.years_of_experience = RInt(55)

\* C11: when the resume holds no years phrase, the experience level is 80
\* if it holds one of senior/lead/manager/director, else 60 if it holds one
\* of mid-level/intermediate/experienced, else 30 if it holds one of
\* junior/entry-level/graduate, else 25; the tiers are tried in that order.
C11_SeniorityFallback ==
    \A p \in Procs : \A r \in Range(results[p]) :
        LET text == Lower(request.resume_text)
        IN  ~YearsMatch(request.resume_text).found =>
                /\ r.semantic_analysis.experience_level =
                       RInt(IF ContainsAny(text, SeniorWords) THEN 80
                            ELSE IF ContainsAny(text, MidWords) THEN 60
                            ELSE IF ContainsAny(text, JuniorWords) THEN 30
                            ELSE 25)
                /\ r.experience_analysis.years_of_experience =
                       r.semantic_analysis.experience_level

\* a result for the resume "Senior engineer, mentor of junior staff", which
\* holds no years phrase, "senior" and "junior": the level is 80
C11_Witness ==
    \E p \in Procs : \E r \in Range(results[p]) :
        /\ request.resume_text = ResumePool[8]
        /\ ~YearsMatch(request.resume_text).found
        /\ ContainsAny(Lower(request.resume_text), SeniorWords)
        /\ ContainsAny(Lower(request.resume_text), JuniorWords)
        /\ r.semantic_analysis.experience_level = RInt(80)

\* C12: the flat suggestions list of a result is its critical list followed
\* by its important list followed by its optional list, nothing added or
\* dropped; the improvements mapping holds exactly the keys critical,
\* important, optional, and each tier holds suggestions of its own rules only.
C12_SuggestionOrder ==
    \A p \in Procs : \A r \in Range(results[p]) :
        LET Starts(m, pre) == Len(m) >= Len(pre) /\ SubSeq(m, 1, Len(pre)) = pre
            IsCritical(m) == \/ Starts(m, Messages.add_required)
                             \/ m = Messages.job_titles
                             \/ m = Messages.sections
            IsImportant(m) == \/ Starts(m, Messages.preferred)
                              \/ m = Messages.density
                              \/ m = Messages.experience
            IsOptional(m) == \/ Starts(m, Messages.soft)
                             \/ m = Messages.readability
        IN  /\ DOMAIN r.improvements = {"critical", "important", "optional"}
            /\ r.suggestions = r.improvements.critical \o r.improvements.important
                                   \o r.improvements.optional
            /\ \A m \in Range(r.improvements.critical) : IsCritical(m)
            /\ \A m \in Range(r.improvements.important) : IsImportant(m)
            /\ \A m \in Range(r.improvements.optional) : IsOptional(m)

\* a result with at least one critical, one important and one optional
\* suggestion
C12_Witness ==
    \E p \in Procs : \E r \in Range(results[p]) :
        /\ r.improvements.critical # <<>>
        /\ r.improvements.important # <<>>
        /\ r.improvements.optional # <<>>
        /\ Len(r.suggestions) >= 3

\* C13: each of the eight rules adds exactly one suggestion to its tier if
\* and only if its own condition holds, whatever the other rules do.
\* Critical: required keywords missing; job_title_match < 50;
\* section_completeness < 75.  Important: preferred keywords missing;
\* keyword_density < 2; experience_level < 50.  Optional: soft-skill keywords
\* missing; readability_score < 80.
C13_IndependentRules ==
    \A p \in Procs : \A r \in Range(results[p]) :
        LET Starts(m, pre) == Len(m) >= Len(pre) /\ SubSeq(m, 1, Len(pre)) = pre
            Count(tier, Is(_)) == Cardinality({k \in 1..Len(tier) : Is(tier[k])})
            Once(tier, Is(_), cond) == Count(tier, Is) = IF cond THEN 1 ELSE 0
            ka == r.keyword_analysis
            sa == r.semantic_analysis
            fa == r.format_analysis
            im == r.improvements
        IN  /\ Once(im.critical, LAMBDA m : Starts(m, Messages.add_required),
                    ka.required.missing # <<>>)
            /\ Once(im.critical, LAMBDA m : m = Messages.job_titles,
                    RLess(sa.job_title_match, RInt(50)))
            /\ Once(im.critical, LAMBDA m : m = Messages.sections,
                    RLess(fa.section_completeness, RInt(75)))
            /\ Once(im.important, LAMBDA m : Starts(m, Messages.preferred),
                    ka.preferred.missing # <<>>)
            /\ Once(im.important, LAMBDA m : m = Messages.density,
                    RLess(fa.keyword_density, RInt(2)))
            /\ Once(im.important, LAMBDA m : m = Messages.experience,
                    RLess(sa.experience_level, RInt(50)))
            /\ Once(im.optional, LAMBDA m : Starts(m, Messages.soft),
                    ka.soft_skills.missing # <<>>)
            /\ Once(im.optional, LAMBDA m : m = Messages.readability,
                    RLess(fa.readability_score, RInt(80)))

\* a result in which the first critical rule and the first important rule
\* did not fire while a later rule of each tier did
C13_Witness ==
    \E p \in Procs : \E r \in Range(results[p]) :
        /\ r.keyword_analysis.required.missing = <<>>
        /\ Messages.job_titles \in Range(r.improvements.critical)
        /\ r.keyword_analysis.preferred.missing = <<>>
        /\ Messages.experience \in Range(r.improvements.important)
        /\ Messages.density \notin Range(r.improvements.important)

\* C20: whenever the years pattern matches in the resume, whatever integer
\* it carries (0 included), the experience level is one of 100, 85, 70, 55,
\* 40 of the threshold table, whatever seniority words the resume holds.
C20_YearsPhraseDecides ==
    \A p \in Procs : \A r \in Range(results[p]) :
        YearsMatch(request.resume_text).found =>
            r.experience_analysis.years_of_experience
                \in {RInt(100), RInt(85), RInt(70), RInt(55), RInt(40)}

(***************************************************************************)
(* Properties of extract_keywords, stated on the call recorded under       *)
(* SpecExtract.                                                            *)
(***************************************************************************)

\* C4: for a text in which "r" is no standalone word, the keywords returned
\* do not contain "r", for every category and under either strategy.
C4_NoSingleLetterR ==
    (extraction # NoCall /\ ~WholeWordIn(<<"r">>, Lower(extraction.text))) =>
        <<"r">> \notin Range(extraction.keywords)

\* C5: every keyword returned occurs in the text (as a substring, letter
\* case aside), "node.js" returned next to "nestjs" by the alias rule aside.
C5_KeywordsOccurInText ==
    extraction # NoCall =>
        \A k \in Range(extraction.keywords) :
            \/ Contains(Lower(extraction.text), Lower(k))
            \/ k = NodeJs /\ NestJs \in Range(extraction.keywords)

\* C6: for the categories that search the technical taxonomy (required and
\* preferred), a returned list that holds "nestjs" also holds "node.js".
C6_NestJsAlias ==
    (/\ extraction # NoCall
     /\ extraction.category \in {"required", "preferred"}
     /\ NestJs \in Range(extraction.keywords)) =>
        NodeJs \in Range(extraction.keywords)

C17_NeverFails ==
    extraction # NoCall =>
        /\ ~extraction.raised
        /\ Cardinality(Range(extraction.keywords)) = Len(extraction.keywords)

(***************************************************************************)
(* Properties of the confidence and of calculate_semantic_similarity,      *)
(* stated on the direct computations made under SpecCalls.                 *)
(***************************************************************************)

\* C14: the confidence is min(100, 30 * len(resume_text) / 1000
\* + 30 * len(job_description) / 1000 + 2 * (matched required + matched
\* preferred keywords)) rounded to one decimal: it never exceeds 100, it is
\* exactly 100 whenever the uncapped sum is at least 100, and it is the
\* rounded sum otherwise.
C14_ConfidenceCap ==
    call.fn = "confidence" =>
        LET thousandths == 30 * call.resume_len + 30 * call.description_len
                             + 2000 * call.matched_count
        IN  /\ ~RLess(RInt(100), call.value)
            /\ thousandths >= 100000 => call.value = RInt(100)
            /\ thousandths < 100000 =>
                  call.value = Round1(Rat(thousandths, 1000))

\* both texts are longer than 100,000 characters and the confidence is 100
C14_Witness ==
    /\ call.fn = "confidence"
    /\ call.resume_len > 100000
    /\ call.description_len > 100000
    /\ call.value = RInt(100)

\* C15: calculate_semantic_similarity(A, B) equals
\* calculate_semantic_similarity(B, A) for every pair of texts, on the
\* TF-IDF path and on the word-overlap path, also when exactly one of the
\* texts is empty.
C15_Symmetry ==
    call.fn = "similarity" =>
        /\ call.value = calculate_semantic_similarity(call.text2, call.text1)
        /\ (call.text1 = <<>>) # (call.text2 = <<>>) => call.value = RInt(0)

\* two different texts share part of their TF-IDF vocabulary: their
\* similarity is strictly between 0 and 1
C15_Witness ==
    /\ call.fn = "similarity"
    /\ call.text1 # call.text2
    /\ TfidfTerms(call.text1) # <<>>
    /\ Len(TfidfTerms(call.text1)) # Len(TfidfTerms(call.text2))
    /\ RLess(RInt(0), call.value)
    /\ RLess(call.value, RInt(1))

C18_ThreadSafe ==
    /\ [](\A t \in Threads :
            frame[t].pc = "done" =>
                frame[t].result = ScoreOf(self_nlp["p1"], hash_seed["p1"],
                                          frame[t].args))
    /\ [](up["p1"] => self_db["p1"] = Database)
    /\ [][up["p1"] => self_nlp' = self_nlp /\ self_db' = self_db]_vars

\* a call has finished after the other thread, called with another job
\* description, ran its keyword step in the middle of it
C18_Witness ==
    /\ frame["t1"].pc = "done"
    /\ frame["t2"].pc = "analysis"
    /\ frame["t1"].args.job_description # frame["t2"].args.job_description
    /\ frame["t1"].result.keyword_analysis # frame["t2"].keyword_analysis

\* C27: under either strategy and for every text, the keywords that
\* extract_keywords returns for 'preferred' are those it returns for
\* 'required' together with those it returns for 'soft'; so every required
\* keyword is a preferred one.
C27_PreferredIsUnion ==
    \A p \in Procs :
        (extraction.proc = p /\ extraction.category = "preferred"
           /\ ~extraction.raised) =>
            Range(extraction.keywords) =
                Range(ExtractKeywords(self_nlp[p], hash_seed[p], extraction.text,
                                      "required"))
                  \cup Range(ExtractKeywords(self_nlp[p], hash_seed[p],
                                             extraction.text, "soft"))

(***************************************************************************)
(* Properties of the server process, stated under SpecServer.              *)
(***************************************************************************)

\* C19: over any sequence of scoring requests handled by a process, the
\* spaCy model is loaded at most once.
C19_LoadedOnce == \A p \in Procs : loads[p] <= 1

\* C26: POST /test-score and POST /score-resume never call
\* compute_ats_score with an empty resume text or an empty job description:
\* they answer 400, or 404 when the referenced resume or job posting does
\* not exist; and an exception raised by the engine is answered with 500.
C26_ValidatedAndCaught ==
    \A p \in Procs : \A k \in 1..Len(responses[p]) :
        responses[p][k].endpoint \in {"/test-score", "/score-resume"} =>
            /\ responses[p][k].scored =>
                   /\ responses[p][k].args.resume_text # <<>>
                   /\ responses[p][k].args.job_description # <<>>
                   /\ responses[p][k].status
                          = IF responses[p][k].raised THEN 500 ELSE 200
            /\ ~responses[p][k].scored =>
                   responses[p][k].status \in
                       IF responses[p][k].endpoint = "/score-resume"
                       THEN {400, 404} ELSE {400}
            /\ (request.resume_text = <<>> \/ request.job_description = <<>>) =>
                   ~responses[p][k].scored

\* /score-resume has answered 404 for a missing resume, and a later request
\* with both texts present reached the engine, which raised, and was
\* answered with 500
C26_Witness ==
    \E p \in Procs : \E k \in 1..Len(responses[p]), m \in 1..Len(responses[p]) :
        /\ k < m
        /\ responses[p][k].endpoint = "/score-resume"
        /\ responses[p][k].status = 404
        /\ responses[p][m].endpoint \in {"/test-score", "/score-resume"}
        /\ responses[p][m].scored /\ responses[p][m].raised
        /\ responses[p][m].status = 500
        /\ responses[p][m].args.resume_text # <<>>

(***************************************************************************)
(* Properties of _exact_word_match, stated on the direct calls made under  *)
(* SpecCalls.                                                              *)
(***************************************************************************)

\* C21: _exact_word_match(term, skill) is true exactly when the skill has
\* more than one character and (1) the skill occurs in the term as a whole
\* word, that is with no word character next to it on either side, or
\* (2) the term so occurs in the skill, or (3) the two are equal ignoring
\* case, or (4) the skill, longer than 2 characters, lies in one
\* whitespace-delimited word of the term that is at most 2 characters
\* longer.
C21_WordMatchRules ==
    call.fn = "_exact_word_match" =>
        LET term  == Lower(call.text1)
            skill == Lower(call.text2)
            AsWord(w, s) ==
                /\ w # <<>>
                /\ \E i \in 1..(Len(s) - Len(w) + 1) :
                      /\ OccursAt(w, s, i)
                      /\ ~(i > 1 /\ IsWordChar(s[i - 1]))
                      /\ ~(i + Len(w) <= Len(s) /\ IsWordChar(s[i + Len(w)]))
            InOneWord ==
                /\ Len(skill) > 2
                /\ \E k \in 1..Len(Split(term)) :
                      /\ Contains(Split(term)[k], skill)
                      /\ Len(Split(term)[k]) <= Len(skill) + 2
        IN  call.value = (/\ Len(skill) > 1
                          /\ \/ AsWord(skill, term)
                             \/ AsWord(term, skill)
                             \/ term = skill
                             \/ InOneWord)

(***************************************************************************)
(* Properties of the category scores and of the format analysis, stated on *)
(* the results of compute_ats_score under SpecEngine.                      *)
(***************************************************************************)

\* C22: the four category scores are fixed-weight sums, reported rounded to
\* one decimal: keyword_score = 0.5 required + 0.3 preferred + 0.2 industry
\* (the soft_skills score does not enter); semantic_score = 0.3
\* job_title_match + 0.3 industry_alignment + 0.2 experience_level + 0.2
\* responsibility_match, industry_alignment being the industry score;
\* format_score = 0.3 structure_score + 0.3 readability_score + 0.2
\* keyword_density + 0.2 section_completeness; experience_score = 0.4
\* relevant_experience + 0.3 project_match + 0.3 achievement_alignment.
C22_CategoryWeights ==
    \A p \in Procs : \A r \in Range(results[p]) :
        /\ r.keyword_score =
               Round1(RAdd(RAdd(RMul(Rat(5, 10), r.keyword_analysis.required.score),
                                RMul(Rat(3, 10), r.keyword_analysis.preferred.score)),
                           RMul(Rat(2, 10), r.keyword_analysis.industry.score)))
        /\ r.semantic_analysis.industry_alignment = r.keyword_analysis.industry.score
        /\ r.semantic_score =
               Round1(RAdd(RAdd(RMul(Rat(3, 10), r.semantic_analysis.job_title_match),
                                RMul(Rat(3, 10), r.semantic_analysis.industry_alignment)),
                           RAdd(RMul(Rat(2, 10), r.semantic_analysis.experience_level),
                                RMul(Rat(2, 10), r.semantic_analysis.responsibility_match))))
        /\ r.format_score =
               Round1(RAdd(RAdd(RMul(Rat(3, 10), r.format_analysis.structure_score),
                                RMul(Rat(3, 10), r.format_analysis.readability_score)),
                           RAdd(RMul(Rat(2, 10), r.format_analysis.keyword_density),
                                RMul(Rat(2, 10), r.format_analysis.section_completeness))))
        /\ r.experience_score =
               Round1(RAdd(RAdd(RMul(Rat(4, 10), r.experience_analysis.relevant_experience),
                                RMul(Rat(3, 10), r.experience_analysis.project_match)),
                           RMul(Rat(3, 10), r.experience_analysis.achievement_alignment)))

\* a result whose soft_skills score differs from its industry score, with a
\* required keyword matched, a resume similar to the job title and every
\* category score positive
C22_Witness ==
    \E p \in Procs : \E r \in Range(results[p]) :
        /\ r.keyword_analysis.soft_skills.score # r.keyword_analysis.industry.score
        /\ r.keyword_analysis.required.matched # <<>>
        /\ r.semantic_analysis.job_title_match.n > 0
        /\ r.keyword_score.n > 0 /\ r.semantic_score.n > 0
        /\ r.format_score.n > 0 /\ r.experience_score.n > 0

\* C23: readability_score comes from the mean length of the non-empty
\* lines of the resume alone, so that blank lines do not lower the mean: it
\* is 60 when the mean exceeds 80, 80 when it exceeds 60, and 100 otherwise.
C23_ReadabilityNonEmptyLines ==
    \A p \in Procs : \A r \in Range(results[p]) :
        LET written == SelectSeq(SplitLines(request.resume_text),
                                 LAMBDA line : line # <<>>)
            total   == SumLen(written)
        IN  r.format_analysis.readability_score =
                RInt(IF total > 80 * Len(written) THEN 60
                     ELSE IF total > 60 * Len(written) THEN 80
                     ELSE 100)

\* C24: keyword_density is the number of occurrences of technical skills in
\* the resume, every occurrence counted, over its number of words, times
\* 1000 and capped at 100, and 0 for a resume without words; a resume in
\* which no technical skill stands as a word has density 0.
C24_KeywordDensity ==
    \A p \in Procs : \A r \in Range(results[p]) :
        LET low   == Lower(request.resume_text)
            words == Len(Split(request.resume_text))
            occurrences ==
                Cardinality({ki \in (1..Len(AllTechnicalSkills)) \X (1..Len(low)) :
                    /\ OccursAt(Lower(AllTechnicalSkills[ki[1]]), low, ki[2])
                    /\ ~(ki[2] > 1 /\ IsWordChar(low[ki[2] - 1]))
                    /\ LET after == ki[2] + Len(AllTechnicalSkills[ki[1]])
                       IN  ~(after <= Len(low) /\ IsWordChar(low[after]))})
        IN  r.format_analysis.keyword_density =
                IF words = 0 THEN RInt(0)
                ELSE RMin(RInt(100), Rat(occurrences * 1000, words))

\* C28: experience_score does not depend on the detected experience level:
\* it is responsibility_match, that is 100 times the similarity of the
\* resume to the job description, rounded to one decimal.
C28_ExperienceScoreIsResponsibility ==
    \A p \in Procs : \A r \in Range(results[p]) :
        /\ r.semantic_analysis.responsibility_match =
               RMul(RInt(100), Similarity(request.resume_text,
                                          request.job_description))
        /\ r.experience_score = Round1(r.semantic_analysis.responsibility_match)

\* a result for a resume with a years phrase whose experience score is
\* positive and differs from the detected experience level
C28_Witness ==
    \E p \in Procs : \E r \in Range(results[p]) :
        /\ YearsMatch(request.resume_text).found
        /\ r.experience_analysis.years_of_experience = RInt(100)
        /\ r.experience_score.n > 0
        /\ r.experience_score # r.experience_analysis.years_of_experience

\* C29: when job_title is empty, as by default and as POST /analyze-resume
\* calls the engine, job_title_match is exactly 0, so the critical
\* suggestion to update the job titles is present and the list of
\* suggestions is not empty.
C29_EmptyTitleSuggestion ==
    \A p \in Procs : \A r \in Range(results[p]) :
        request.job_title = <<>> =>
            /\ r.semantic_analysis.job_title_match = RInt(0)
            /\ \E k \in 1..Len(r.improvements.critical) :
                   r.improvements.critical[k] = Messages.job_titles
            /\ \E k \in 1..Len(r.suggestions) :
                   r.suggestions[k] = Messages.job_titles
            /\ r.suggestions # <<>>

\* a result for a non-empty resume and job description and an empty job
\* title in which no other critical rule fired
C29_Witness ==
    \E p \in Procs : \E r \in Range(results[p]) :
        /\ request.job_title = <<>>
        /\ request.resume_text # <<>> /\ request.job_description # <<>>
        /\ r.semantic_analysis.responsibility_match.n > 0
        /\ r.improvements.critical = <<Messages.job_titles>>

(***************************************************************************)
(* Properties of the extraction strategy, stated on the direct calls of    *)
(* extract_keywords under SpecStrategy.                                    *)
(***************************************************************************)

\* C25: the extraction strategy of an engine is fixed when it is
\* constructed: no step changes self.nlp of a constructed engine, and every
\* call of extract_keywords on an engine without a loaded model returns,
\* without raising, what the fallback extraction returns.
C25_StrategyFixed ==
    /\ [][\A p \in Procs : up[p] => up'[p] /\ self_nlp'[p] = self_nlp[p]]_vars
    /\ [](\A p \in Procs :
            (extraction.proc = p /\ ~self_nlp[p]) =>
                /\ ~extraction.raised
                /\ extraction.keywords =
                       FallbackKeywords(hash_seed[p], extraction.text,
                                        extraction.category))

\* an engine without a loaded model has extracted keywords from a text on
\* which the spaCy extraction returns other keywords
C25_Witness ==
    \E p \in Procs :
        /\ up[p] /\ ~self_nlp[p]
        /\ extraction.proc = p
        /\ extraction.keywords # <<>>
        /\ Range(extraction.keywords) #
               Range(ExtractKeywords(TRUE, hash_seed[p], extraction.text,
                                     extraction.category))

=============================================================================
